---- MODULE Spec2Model ----
(***************************************************************************)
(* docker-reuse: fingerprint a Docker build (Dockerfile, its sources and   *)
(* the build arguments), find or build the image tagged by the fingerprint *)
(* and update the template files.                                          *)
(*                                                                         *)
(* Byte strings are sequences of one-character strings.  The 40 hex digits *)
(* of a SHA1 sum or of a commit id are kept as ONE element of a byte       *)
(* string: a string of the form "<...>" (see Sha1Hex), which is the only   *)
(* kind of element longer than one character.  A path is a sequence of     *)
(* path components (each a byte string); the empty path is the current     *)
(* directory of the process.                                               *)
(***************************************************************************)
EXTENDS Integers, Sequences, FiniteSets, TLC

(***************************************************************************)
(* Bounds of the model.                                                    *)
(***************************************************************************)
\* The runs of docker-reuse in one behaviour.
MaxRuns == 2

\* The longest template file.
MaxTemplateLen == 4

(***************************************************************************)
(* Byte strings                                                            *)
(***************************************************************************)
B(c) == <<c>>

RECURSIVE Flat(_)
\* The bytes of a byte string as one TLA+ string.
Flat(s) == IF s = <<>> THEN "" ELSE Head(s) \o Flat(Tail(s))

RECURSIVE Concat(_)
\* Concatenation of a sequence of byte strings.
Concat(ss) == IF ss = <<>> THEN <<>> ELSE Head(ss) \o Concat(Tail(ss))

\* strings.HasPrefix / bytes.HasPrefix
HasPrefix(s, p) == Len(p) <= Len(s) /\ SubSeq(s, 1, Len(p)) = p

\* s has an occurrence of p starting at index i
OccursAt(s, p, i) == i + Len(p) - 1 <= Len(s) /\ SubSeq(s, i, i + Len(p) - 1) = p

\* Contains, were the placeholder looked for at the start of the file only
ContainsAtStart(s, p) == OccursAt(s, p, 1)

\* bytes.Contains
Contains(s, p) == \E i \in 1..(Len(s) + 1) : OccursAt(s, p, i)

\* strings.ContainsRune
ContainsRune(s, c) == \E i \in 1..Len(s) : s[i] = c

RECURSIVE ReplaceFrom(_, _, _, _)
ReplaceFrom(s, old, new, i) ==
    IF i > Len(s) THEN <<>>
    ELSE IF OccursAt(s, old, i)
         THEN new \o ReplaceFrom(s, old, new, i + Len(old))
         ELSE <<s[i]>> \o ReplaceFrom(s, old, new, i + 1)

\* bytes.ReplaceAll for a non-empty old: the non-overlapping occurrences of
\* old, leftmost first, are replaced by new.
ReplaceAll(s, old, new) == ReplaceFrom(s, old, new, 1)

\* crypto/sha1 followed by fmt.Sprintf("%x"): a collision-free digest, the
\* hex digits being one element of a byte string.
Sha1Hex(stream) == "<" \o Flat(stream) \o ">"

\* An element of a byte string that stands for 40 hex digits.
IsHexToken(e) == Len(e) > 1


(***************************************************************************)
(* regexp: QuoteMeta(imageName) + "(?::[-.\\w]+)?"                         *)
(***************************************************************************)
Digits == {"1", "2"}

Letters == {"D", "P", "a", "b", "c", "e", "f", "h", "i", "k", "l", "m", "o",
            "r", "s", "t", "x", "y"}

\* The character class [-.\w]; hex digits are in \w.
IsTagChar(e) == e \in ({"-", ".", "_"} \cup Digits \cup Letters) \/ IsHexToken(e)

RECURSIVE TagEnd(_, _)
\* The index after the longest run of tag characters that starts at i.
TagEnd(s, i) == IF i <= Len(s) /\ IsTagChar(s[i]) THEN TagEnd(s, i + 1) ELSE i

\* MatchEnd, were the pattern the quoted image name alone
MatchEndNoTag(s, name, i) == i + Len(name)

\* The index after the match of the pattern that starts at i, where the image
\* name occurs: the optional group is taken when ':' and at least one tag
\* character follow, and the tag is as long as possible.
MatchEnd(s, name, i) ==
    LET j == i + Len(name)
    IN  IF j <= Len(s) /\ s[j] = ":" /\ TagEnd(s, j + 1) > j + 1
        THEN TagEnd(s, j + 1)
        ELSE j

RECURSIVE FindAllFrom(_, _, _)
FindAllFrom(s, name, i) ==
    IF i > Len(s) THEN <<>>
    ELSE IF OccursAt(s, name, i)
         THEN <<SubSeq(s, i, MatchEnd(s, name, i) - 1)>>
                  \o FindAllFrom(s, name, MatchEnd(s, name, i))
         ELSE FindAllFrom(s, name, i + 1)

\* re.FindAll(contents, -1) for a non-empty image name: the successive
\* non-overlapping matches, leftmost first.
FindAll(s, name) == FindAllFrom(s, name, 1)

(***************************************************************************)
(* path/filepath                                                           *)
(***************************************************************************)
Dot == <<".">>

DotDot == <<".", ".">>

RECURSIVE SplitFrom(_, _, _)
SplitFrom(s, i, cur) ==
    IF i > Len(s) THEN <<cur>>
    ELSE IF s[i] = "/" THEN <<cur>> \o SplitFrom(s, i + 1, <<>>)
         ELSE SplitFrom(s, i + 1, Append(cur, s[i]))

\* The components of a path string, split at the separators.
SplitPath(s) == SplitFrom(s, 1, <<>>)

RECURSIVE CleanFrom(_, _)
CleanFrom(p, out) ==
    IF p = <<>> THEN out
    ELSE LET c == Head(p)
         IN  IF c = <<>> \/ c = Dot THEN CleanFrom(Tail(p), out)
             ELSE IF c = DotDot /\ out # <<>> /\ out[Len(out)] # DotDot
                  THEN CleanFrom(Tail(p), SubSeq(out, 1, Len(out) - 1))
                  ELSE CleanFrom(Tail(p), Append(out, c))

\* filepath.Clean of a relative path string, as its components; the empty
\* sequence is ".".
Clean(s) == CleanFrom(SplitPath(s), <<>>)

RECURSIVE JoinComps(_)
JoinComps(p) ==
    IF Len(p) = 1 THEN p[1] ELSE p[1] \o <<"/">> \o JoinComps(Tail(p))

\* The path string of a cleaned path.
PathString(p) == IF p = <<>> THEN Dot ELSE JoinComps(p)

\* filepath.Join(dir, elem) for cleaned dir and a path string elem.
JoinPath(dir, elem) == CleanFrom(dir \o SplitPath(elem), <<>>)

RECURSIVE CommonLen(_, _)
CommonLen(a, b) ==
    IF a # <<>> /\ b # <<>> /\ Head(a) = Head(b)
    THEN 1 + CommonLen(Tail(a), Tail(b))
    ELSE 0

\* filepath.Rel(base, target) for cleaned relative paths.
Rel(base, target) ==
    LET n == CommonLen(base, target)
    IN  [i \in 1..(Len(base) - n) |-> DotDot] \o SubSeq(target, n + 1, Len(target))

\* filepath.Base of a cleaned path.
Base(p) == IF p = <<>> THEN Dot ELSE p[Len(p)]

RECURSIVE Match(_, _)
\* filepath.Match of one path component against a pattern of literals, '*'
\* and '?'.
Match(pat, s) ==
    IF pat = <<>> THEN s = <<>>
    ELSE IF Head(pat) = "*"
         THEN Match(Tail(pat), s) \/ (s # <<>> /\ Match(pat, Tail(s)))
         ELSE /\ s # <<>>
              /\ Head(pat) = "?" \/ Head(pat) = Head(s)
              /\ Match(Tail(pat), Tail(s))

\* The order of the characters of file names (their ASCII order).
AsciiOrder == <<"*", "-", ".", "1", "2", "=", "?", "@", "D", "P", "_", "a",
                "b", "c", "e", "f", "h", "i", "k", "l", "m", "o", "r", "s",
                "t", "x", "y">>

Rank(c) == CHOOSE i \in 1..Len(AsciiOrder) : AsciiOrder[i] = c

RECURSIVE NameLess(_, _)
\* a < b for two file names, as sort.Strings orders them
NameLess(a, b) ==
    IF b = <<>> THEN FALSE
    ELSE IF a = <<>> THEN TRUE
    ELSE IF Head(a) = Head(b) THEN NameLess(Tail(a), Tail(b))
    ELSE Rank(Head(a)) < Rank(Head(b))

RECURSIVE SortNames(_)
SortNames(S) ==
    IF S = {} THEN <<>>
    ELSE LET m == CHOOSE x \in S : \A y \in S \ {x} : NameLess(x, y)
         IN  <<m>> \o SortNames(S \ {m})

RECURSIVE PathLess(_, _)
\* p < q for two paths of the same length, component by component
PathLess(p, q) ==
    IF p = <<>> THEN FALSE
    ELSE IF Head(p) = Head(q) THEN PathLess(Tail(p), Tail(q))
    ELSE NameLess(Head(p), Head(q))

RECURSIVE SortPaths(_)
SortPaths(S) ==
    IF S = {} THEN <<>>
    ELSE LET m == CHOOSE x \in S : \A y \in S \ {x} : PathLess(x, y)
         IN  <<m>> \o SortPaths(S \ {m})

(***************************************************************************)
(* The file system below the current directory: a function from the        *)
(* cleaned paths that exist to their nodes.  The empty path (the current   *)
(* directory) always exists, and the parent of a node is a directory.      *)
(***************************************************************************)
File(b) == [kind |-> "file", data |-> b, to |-> <<>>]

\* A regular file that the process may not open.
Locked == [kind |-> "locked", data |-> <<>>, to |-> <<>>]

Dir == [kind |-> "dir", data |-> <<>>, to |-> <<>>]

\* A symbolic link to the path t.
Link(t) == [kind |-> "link", data |-> <<>>, to |-> t]

\* os.Lstat: "ok", "notexist" (ENOENT) or "notdir" (ENOTDIR, which
\* os.IsNotExist does not accept).
Lstat(fsys, p) ==
    IF p \in DOMAIN fsys THEN "ok"
    ELSE IF \E n \in 1..(Len(p) - 1) :
               /\ SubSeq(p, 1, n) \in DOMAIN fsys
               /\ fsys[SubSeq(p, 1, n)].kind \in {"file", "locked"}
         THEN "notdir"
         ELSE "notexist"

\* The node that p names once a symbolic link is followed.
Target(fsys, p) == IF fsys[p].kind = "link" THEN fsys[p].to ELSE p

\* os.Stat
Stat(fsys, p) ==
    IF Lstat(fsys, p) = "ok" THEN Lstat(fsys, Target(fsys, p)) ELSE Lstat(fsys, p)

\* os.Open followed by io.Copy: the bytes of a regular file; a directory
\* (reached through a symbolic link) cannot be read.
OpenRead(fsys, p) ==
    IF Stat(fsys, p) = "ok" /\ fsys[Target(fsys, p)].kind = "file"
    THEN [ok |-> TRUE, data |-> fsys[Target(fsys, p)].data]
    ELSE [ok |-> FALSE, data |-> <<>>]

ChildNames(fsys, p) ==
    {q[Len(q)] : q \in {r \in DOMAIN fsys :
                           Len(r) = Len(p) + 1 /\ SubSeq(r, 1, Len(p)) = p}}

\* IsSkippedDir, were no directory skipped
IsSkippedDirNever(p) == FALSE

\* The callback of hashFiles for a directory: hidden directories are skipped.
IsSkippedDir(p) == p # <<>> /\ Base(p)[1] = "."

RECURSIVE WalkPath(_, _)
RECURSIVE WalkNames(_, _, _)
\* filepath.Walk below an existing path p with the callback of hashFiles:
\* the bytes written to the hash, or the error that stops the walk.
WalkPath(fsys, p) ==
    IF fsys[p].kind = "dir"
    THEN IF IsSkippedDir(p)
         THEN [st |-> "skip", out |-> <<>>]
         ELSE WalkNames(fsys, p, SortNames(ChildNames(fsys, p)))
    ELSE IF OpenRead(fsys, p).ok
         THEN [st |-> "ok", out |-> OpenRead(fsys, p).data]
         ELSE [st |-> "err", out |-> <<>>]

WalkNames(fsys, p, names) ==
    IF names = <<>> THEN [st |-> "ok", out |-> <<>>]
    ELSE LET first == WalkPath(fsys, Append(p, Head(names)))
             rest == WalkNames(fsys, p, Tail(names))
         IN  IF first.st = "err" THEN first
             ELSE IF rest.st = "err" THEN rest
             ELSE [st |-> "ok", out |-> first.out \o rest.out]

\* The zero value of fingerprint.
ZeroFingerprint == [mode |-> <<>>, hash |-> ""]

modeCommit == <<"c", "o", "m", "m", "i", "t">>

modeSHA1 == <<"s", "h", "a", "1">>

modeAuto == <<"a", "u", "t", "o">>

\* fingerprint.String, were it to print the hash alone
StringHashOnly(fp) == <<fp.hash>>

\* fingerprint.String
String(fp) == fp.mode \o <<":">> \o <<fp.hash>>

\* fingerprintFromSHA1 of a hash that was fed the bytes of stream
fingerprintFromSHA1(stream) == [mode |-> modeSHA1, hash |-> Sha1Hex(stream)]

Failed == [ok |-> FALSE, fp |-> ZeroFingerprint]

hashFiles(fsys, p) ==
    IF Lstat(fsys, p) # "ok" THEN Failed
    ELSE IF WalkPath(fsys, p).st = "err" THEN Failed
    ELSE [ok |-> TRUE, fp |-> fingerprintFromSHA1(WalkPath(fsys, p).out)]

\* hasMeta of path/filepath, for the patterns of the model
HasMeta(p) == \E i \in 1..Len(p) : \E j \in 1..Len(p[i]) : p[i][j] \in {"*", "?"}

\* filepath.Glob of a cleaned pattern: the matches in sorted order.
Glob(fsys, pat) ==
    IF ~HasMeta(pat)
    THEN IF pat \in DOMAIN fsys THEN <<pat>> ELSE <<>>
    ELSE SortPaths({q \in DOMAIN fsys :
                       /\ Len(q) = Len(pat)
                       /\ \A i \in 1..Len(pat) : Match(pat[i], q[i])})

(***************************************************************************)
(* The Dockerfile: parser.Parse of buildkit for the recipes of the model   *)
(* (one instruction per line, words separated by one blank, flags first).  *)
(***************************************************************************)
RECURSIVE SplitAt(_, _, _, _)
SplitAt(s, sep, i, cur) ==
    IF i > Len(s) THEN <<cur>>
    ELSE IF s[i] = sep THEN <<cur>> \o SplitAt(s, sep, i + 1, <<>>)
         ELSE SplitAt(s, sep, i + 1, Append(cur, s[i]))

\* The non-empty pieces of s between the separators.
Fields(s, sep) == SelectSeq(SplitAt(s, sep, 1, <<>>), LAMBDA w : w # <<>>)

IsFlag(w) == HasPrefix(w, <<"-", "-">>)

RECURSIVE FlagCount(_)
FlagCount(ws) == IF ws # <<>> /\ IsFlag(Head(ws)) THEN 1 + FlagCount(Tail(ws)) ELSE 0

\* One node of the AST: the instruction, its flags and the chain of its
\* arguments (child.Next, .Next.Next, ...).
Instruction(line) ==
    LET ws == Fields(line, " ")
        n == FlagCount(Tail(ws))
    IN  [value |-> Head(ws),
         flags |-> SubSeq(Tail(ws), 1, n),
         next |-> SubSeq(Tail(ws), n + 1, Len(ws) - 1)]

\* res.AST.Children; a file with no instructions is a parse error.
Parse(bytes) ==
    LET lines == Fields(bytes, "\n")
    IN  [ok |-> lines # <<>>,
         children |-> [i \in 1..Len(lines) |-> Instruction(lines[i])]]

kwAdd == <<"a", "d", "d">>

kwCopy == <<"c", "o", "p", "y">>

flagFrom == <<"-", "-", "f", "r", "o", "m">>

InSeq(x, s) == \E i \in 1..Len(s) : s[i] = x

RECURSIVE AddSourcesNoDedup(_, _)
\* AddSources without the alreadyAdded map
AddSourcesNoDedup(chain, sources) ==
    IF Len(chain) <= 1 THEN sources
    ELSE AddSourcesNoDedup(Tail(chain), Append(sources, Head(chain)))

RECURSIVE AddSources(_, _)
\* The loop over the argument chain: every token but the last, unless it was
\* already added.
AddSources(chain, sources) ==
    IF Len(chain) <= 1 THEN sources
    ELSE AddSources(Tail(chain),
                    IF InSeq(Head(chain), sources) THEN sources
                    ELSE Append(sources, Head(chain)))

RECURSIVE CollectFromAnyFlag(_, _)
\* CollectFrom without the loop over child.Flags
CollectFromAnyFlag(children, sources) ==
    IF children = <<>> THEN sources
    ELSE LET child == Head(children)
         IN  IF child.value # kwAdd /\ child.value # kwCopy
             THEN CollectFromAnyFlag(Tail(children), sources)
             ELSE CollectFromAnyFlag(Tail(children), AddSources(child.next, sources))

RECURSIVE CollectFrom(_, _)
CollectFrom(children, sources) ==
    IF children = <<>> THEN sources
    ELSE LET child == Head(children)
         IN  IF child.value # kwAdd /\ child.value # kwCopy
             THEN CollectFrom(Tail(children), sources)
             ELSE IF \E i \in 1..Len(child.flags) : HasPrefix(child.flags[i], flagFrom)
             THEN CollectFrom(Tail(children), sources)
             ELSE CollectFrom(Tail(children), AddSources(child.next, sources))

\* collectSourcesFromDockerfile, were a Dockerfile without sources an error
collectSourcesFromDockerfileOrError(bytes) ==
    [ok |-> Parse(bytes).ok /\ CollectFrom(Parse(bytes).children, <<>>) # <<>>,
     sources |-> IF Parse(bytes).ok THEN CollectFrom(Parse(bytes).children, <<>>)
                 ELSE <<>>,
     isNil |-> ~Parse(bytes).ok \/ CollectFrom(Parse(bytes).children, <<>>) = <<>>]

\* The slice that is returned and the error; 'var sources []string' is the
\* nil slice until the first append.
collectSourcesFromDockerfile(bytes) ==
    [ok |-> Parse(bytes).ok,
     sources |-> IF Parse(bytes).ok THEN CollectFrom(Parse(bytes).children, <<>>)
                 ELSE <<>>,
     isNil |-> ~Parse(bytes).ok \/ CollectFrom(Parse(bytes).children, <<>>) = <<>>]

\* parseAndHashDockerfile: the sources and the SHA1 of the bytes of the file.
parseAndHashDockerfile(fsys, dockerfile) ==
    IF ~OpenRead(fsys, dockerfile).ok
       \/ ~collectSourcesFromDockerfile(OpenRead(fsys, dockerfile).data).ok
    THEN [ok |-> FALSE, sources |-> <<>>, fp |-> ZeroFingerprint]
    ELSE [ok |-> TRUE,
          sources |-> collectSourcesFromDockerfile(
                          OpenRead(fsys, dockerfile).data).sources,
          fp |-> fingerprintFromSHA1(OpenRead(fsys, dockerfile).data)]

(***************************************************************************)
(* git: the repository whose work tree is the current directory, as go-git *)
(* reports it: whether it exists, the files whose status is not            *)
(* Unmodified, and the log from HEAD, newest commit first, each commit     *)
(* with the files it changed.                                              *)
(***************************************************************************)
getLastCommitHash(g, p) ==
    LET rel == PathString(p)
        clean == IF p # <<>>
                 THEN ~\E f \in g.dirty : HasPrefix(f, rel)
                 ELSE g.dirty = {}
        commits == IF p # <<>>
                   THEN SelectSeq(g.log, LAMBDA c :
                                      \E f \in c.files : HasPrefix(f, rel))
                   ELSE g.log
    IN  IF ~g.repo \/ ~clean \/ commits = <<>> THEN Failed
        ELSE [ok |-> TRUE, fp |-> [mode |-> modeCommit, hash |-> commits[1].id]]

(***************************************************************************)
(* The state: the environment of the process (command line, file system,   *)
(* template files, environment variables, git repository, registry), the   *)
(* position and the locals of main, and the summary of the previous run.   *)
(***************************************************************************)
VARIABLES cmd, fs, tfiles, env, git, registry,
          pc, buildArgs, templateFiles, sources, srcIdx, h, fingerprint,
          image, docker, pushIdx, updIdx, exit, written, tfiles0, run, prev

vars == <<cmd, fs, tfiles, env, git, registry, pc, buildArgs, templateFiles,
          sources, srcIdx, h, fingerprint, image, docker, pushIdx, updIdx,
          exit, written, tfiles0, run, prev>>

envVars == <<cmd, fs, env, git>>

\* The words of the docker command lines.
wBuild == <<"b", "u", "i", "l", "d">>

wPush == <<"p", "u", "s", "h">>

wManifest == <<"m", "a", "n", "i", "f", "e", "s", "t">>

wInspect == <<"i", "n", "s", "p", "e", "c", "t">>

wBuildx == <<"b", "u", "i", "l", "d", "x">>

wImagetools == <<"i", "m", "a", "g", "e", "t", "o", "o", "l", "s">>

wCreate == <<"c", "r", "e", "a", "t", "e">>

wT == <<"-", "t">>

wTag == <<"-", "-", "t", "a", "g">>

wQ == <<"-", "q">>

wF == <<"-", "f">>

wBuildArg == <<"-", "-", "b", "u", "i", "l", "d", "-", "a", "r", "g">>

wDockerfile == <<"D", "o", "c", "k", "e", "r", "f", "i", "l", "e">>

\* How a docker command can end: "ok" is exit code 0; "notfound" and
\* "denied" are non-zero exit codes (the image is not in the registry; the
\* registry refused or could not be reached); "nostart" is the failure to
\* run docker at all.
Outcomes == {"ok", "notfound", "denied", "nostart"}

\* IsExitError, were every failure taken for a non-zero exit code
IsExitErrorAny(outcome) == outcome # "ok"

\* err.(*exec.ExitError): cmd.Run() started the command and it exited with
\* a non-zero code.
IsExitError(outcome) == outcome \in {"notfound", "denied"}

\* os.Exit after the error message err about a file or an argument
ExitAbout(code, err, about) ==
    /\ pc' = "done"
    /\ exit' = [code |-> code, err |-> err, about |-> about]

Exit(code, err) == ExitAbout(code, err, "")

(***************************************************************************)
(* main: the command line                                                  *)
(***************************************************************************)
\* os.LookupEnv
LookupEnv(e, name) ==
    IF name \in DOMAIN e THEN e[name] ELSE [found |-> FALSE, value |-> <<>>]

\* ResolveBuildArg with os.Getenv, which gives the empty string for a
\* variable that is not set
ResolveBuildArgGetenv(e, arg) ==
    IF ContainsRune(arg, "=") THEN [ok |-> TRUE, arg |-> arg]
    ELSE [ok |-> TRUE, arg |-> arg \o <<"=">> \o LookupEnv(e, arg).value]

\* One iteration of the loop over buildArgs.
ResolveBuildArg(e, arg) ==
    IF ContainsRune(arg, "=") THEN [ok |-> TRUE, arg |-> arg]
    ELSE IF ~LookupEnv(e, arg).found THEN [ok |-> FALSE, arg |-> arg]
    ELSE [ok |-> TRUE, arg |-> arg \o <<"=">> \o LookupEnv(e, arg).value]

ParseCommandLine ==
    /\ pc = "start"
    /\ UNCHANGED <<cmd, fs, tfiles, env, git, registry, templateFiles, sources,
                   srcIdx, h, fingerprint, image, docker, pushIdx, updIdx,
                   written, tfiles0, run, prev>>
    /\ IF cmd.p # <<>> /\ cmd.u = <<>>
       THEN Exit(2, "usage") /\ UNCHANGED buildArgs
       ELSE IF cmd.m \notin {modeCommit, modeSHA1, modeAuto}
       THEN Exit(1, "mode") /\ UNCHANGED buildArgs
       ELSE IF \E i \in 1..Len(cmd.args) : ~ResolveBuildArg(env, cmd.args[i]).ok
       THEN /\ LET i == CHOOSE j \in 1..Len(cmd.args) :
                            /\ ~ResolveBuildArg(env, cmd.args[j]).ok
                            /\ \A k \in 1..(j - 1) : ResolveBuildArg(env, cmd.args[k]).ok
               IN  ExitAbout(1, "param", Flat(cmd.args[i]))
            /\ UNCHANGED buildArgs
       ELSE /\ buildArgs' = [i \in 1..Len(cmd.args) |->
                                ResolveBuildArg(env, cmd.args[i]).arg]
            /\ pc' = IF cmd.u = <<>> THEN "fingerprint" ELSE "read"
            /\ UNCHANGED exit

(***************************************************************************)
(* readTemplateFile                                                        *)
(***************************************************************************)
NoTemplate == [filename |-> "", contents |-> <<>>, placeholder |-> <<>>]

\* The placeholder when none is given: the first reference to the image.
FirstRef(imageRefs) == imageRefs[1]

\* Consistent, were the loop to stop one reference early
ConsistentButLast(imageRefs) ==
    \A i \in 2..(Len(imageRefs) - 1) : imageRefs[i] = FirstRef(imageRefs)

\* The check that all references to the image are identical.
Consistent(imageRefs) == \A i \in 2..Len(imageRefs) : imageRefs[i] = FirstRef(imageRefs)

readTemplateFile(files, filename, imageName, placeholderString) ==
    IF ~files[filename].readable
    THEN [err |-> "template_read", tf |-> NoTemplate]
    ELSE LET contents == files[filename].data
             imageRefs == FindAll(contents, imageName)
         IN  IF placeholderString = <<>>
             THEN IF imageRefs = <<>>
                  THEN [err |-> "template_noref", tf |-> NoTemplate]
                  ELSE IF ~Consistent(imageRefs)
                  THEN [err |-> "template_inconsistent", tf |-> NoTemplate]
                  ELSE [err |-> "",
                        tf |-> [filename |-> filename, contents |-> contents,
                                placeholder |-> FirstRef(imageRefs)]]
             ELSE IF ~Contains(contents, placeholderString)
                  THEN [err |-> "template_noplaceholder", tf |-> NoTemplate]
                  ELSE [err |-> "",
                        tf |-> [filename |-> filename, contents |-> contents,
                                placeholder |-> placeholderString]]

\* One iteration of the loop that reads the template files.
ReadTemplate ==
    /\ pc = "read"
    /\ UNCHANGED <<cmd, fs, tfiles, env, git, registry, buildArgs, sources,
                   srcIdx, h, fingerprint, image, docker, pushIdx, updIdx,
                   written, tfiles0, run, prev>>
    /\ LET r == readTemplateFile(tfiles, cmd.u[Len(templateFiles) + 1],
                                 cmd.imageName, cmd.p)
       IN  IF r.err # ""
           THEN /\ ExitAbout(1, r.err, cmd.u[Len(templateFiles) + 1])
                /\ UNCHANGED templateFiles
           ELSE /\ templateFiles' = Append(templateFiles, r.tf)
                /\ pc' = IF Len(templateFiles) + 1 = Len(cmd.u)
                         THEN "fingerprint" ELSE "read"
                /\ UNCHANGED exit

(***************************************************************************)
(* computeImageFingerprint                                                 *)
(***************************************************************************)
\* autoFingerprint without the fallback to file content hashing
autoFingerprintNoFallback(fsys, g, p) == getLastCommitHash(g, p)

\* The fingerprintFunc that main selects for mode -m auto.
autoFingerprint(fsys, g, p) ==
    IF getLastCommitHash(g, p).ok THEN getLastCommitHash(g, p)
    ELSE hashFiles(fsys, p)

\* The fingerprintFunc that main selects for the mode.
computeFingerprint(mode, fsys, g, p) ==
    IF mode = modeCommit THEN getLastCommitHash(g, p)
    ELSE IF mode = modeSHA1 THEN hashFiles(fsys, p)
    ELSE autoFingerprint(fsys, g, p)

\* The cleaned path of the Dockerfile that is opened.
DockerfilePath(workingDir, dockerfile) ==
    IF dockerfile = <<>> THEN JoinPath(Clean(workingDir), wDockerfile)
    ELSE Clean(dockerfile)

\* addSourceFingerprint: the bytes written to the hash for one source.
SourceLine(source, fp) == source \o <<"@">> \o String(fp) \o <<"\n">>

\* MatchLines, were the first match alone resolved
MatchLinesFirstOnly(wd, matches, mode, fsys, g) ==
    IF matches = <<>> THEN [ok |-> TRUE, lines |-> <<>>, err |-> ""]
    ELSE LET r == computeFingerprint(mode, fsys, g, Head(matches))
         IN  [ok |-> r.ok,
              lines |-> IF r.ok
                        THEN SourceLine(PathString(Rel(wd, Head(matches))), r.fp)
                        ELSE <<>>,
              err |-> IF r.ok THEN "" ELSE "resolve"]

RECURSIVE MatchLines(_, _, _, _, _)
\* The loop over the matches of a glob pattern.
MatchLines(wd, matches, mode, fsys, g) ==
    IF matches = <<>> THEN [ok |-> TRUE, lines |-> <<>>, err |-> ""]
    ELSE LET r == computeFingerprint(mode, fsys, g, Head(matches))
             rest == MatchLines(wd, Tail(matches), mode, fsys, g)
         IN  IF ~r.ok \/ ~rest.ok
             THEN [ok |-> FALSE, lines |-> <<>>, err |-> "resolve"]
             ELSE [ok |-> TRUE,
                   lines |-> SourceLine(PathString(Rel(wd, Head(matches))), r.fp)
                                 \o rest.lines,
                   err |-> ""]

\* SourceLines, were the source named in the hash as the Dockerfile spells it
SourceLinesRawName(wd, source, mode, fsys, g) ==
    LET pathname == CleanFrom(wd \o Clean(source), <<>>)
    IN  IF Stat(fsys, pathname) = "ok"
        THEN LET r == computeFingerprint(mode, fsys, g, pathname)
             IN  [ok |-> r.ok,
                  lines |-> IF r.ok THEN SourceLine(source, r.fp) ELSE <<>>,
                  err |-> IF r.ok THEN "" ELSE "resolve"]
        ELSE IF Stat(fsys, pathname) # "notexist"
        THEN [ok |-> FALSE, lines |-> <<>>, err |-> Stat(fsys, pathname)]
        ELSE IF Glob(fsys, pathname) = <<>>
        THEN [ok |-> FALSE, lines |-> <<>>, err |-> Stat(fsys, pathname)]
        ELSE MatchLines(wd, Glob(fsys, pathname), mode, fsys, g)

\* One iteration of the loop over the sources: the bytes it writes to the
\* hash, or the error it returns (the error of os.Stat, or "resolve" for the
\* error of computeFingerprint).
SourceLines(wd, source, mode, fsys, g) ==
    LET src == Clean(source)
        pathname == CleanFrom(wd \o src, <<>>)
    IN  IF Stat(fsys, pathname) = "ok"
        THEN LET r == computeFingerprint(mode, fsys, g, pathname)
             IN  [ok |-> r.ok,
                  lines |-> IF r.ok THEN SourceLine(PathString(src), r.fp)
                            ELSE <<>>,
                  err |-> IF r.ok THEN "" ELSE "resolve"]
        ELSE IF Stat(fsys, pathname) # "notexist"
        THEN [ok |-> FALSE, lines |-> <<>>, err |-> Stat(fsys, pathname)]
        ELSE IF Glob(fsys, pathname) = <<>>
        THEN [ok |-> FALSE, lines |-> <<>>, err |-> Stat(fsys, pathname)]
        ELSE MatchLines(wd, Glob(fsys, pathname), mode, fsys, g)

\* SourceAt, were the loop to range over the map alreadyAdded, whose order
\* changes from one run to the next
SourceAtMapOrder(srcs, i) == srcs[IF run = 1 THEN i ELSE Len(srcs) + 1 - i]

\* The source that the i-th iteration of the loop handles.
SourceAt(srcs, i) == srcs[i]

\* ArgLines without the h.Write of the newline
ArgLinesNoNewline(args) == Concat(args)

\* The loop over the build arguments: the bytes written to the hash.
ArgLines(args) == Concat([i \in 1..Len(args) |-> args[i] \o <<"\n">>])

\* StartFingerprint, were the Dockerfile fingerprinted as the sources are
StartFingerprintByMode ==
    /\ pc = "fingerprint"
    /\ UNCHANGED <<cmd, fs, tfiles, env, git, registry, buildArgs,
                   templateFiles, fingerprint, image, docker, pushIdx, updIdx,
                   written, tfiles0, run, prev>>
    /\ LET r == parseAndHashDockerfile(fs, DockerfilePath(cmd.workingDir, cmd.f))
           byMode == computeFingerprint(cmd.m, fs, git,
                                        DockerfilePath(cmd.workingDir, cmd.f))
       IN  IF ~r.ok
           THEN Exit(1, "dockerfile") /\ UNCHANGED <<sources, srcIdx, h>>
           ELSE /\ sources' = r.sources
                /\ srcIdx' = 0
                /\ h' = SourceLine(wDockerfile, IF byMode.ok THEN byMode.fp ELSE r.fp)
                /\ pc' = "sources"
                /\ UNCHANGED exit

\* computeImageFingerprint up to the loop over the sources.
StartFingerprint ==
    /\ pc = "fingerprint"
    /\ UNCHANGED <<cmd, fs, tfiles, env, git, registry, buildArgs,
                   templateFiles, fingerprint, image, docker, pushIdx, updIdx,
                   written, tfiles0, run, prev>>
    /\ LET r == parseAndHashDockerfile(fs, DockerfilePath(cmd.workingDir, cmd.f))
       IN  IF ~r.ok
           THEN Exit(1, "dockerfile") /\ UNCHANGED <<sources, srcIdx, h>>
           ELSE /\ sources' = r.sources
                /\ srcIdx' = 0
                /\ h' = SourceLine(wDockerfile, r.fp)
                /\ pc' = "sources"
                /\ UNCHANGED exit

\* FingerprintSource, were the digest of the lines written so far returned
\* with the error
FingerprintSourcePartial ==
    /\ pc = "sources"
    /\ srcIdx < Len(sources)
    /\ UNCHANGED <<cmd, fs, tfiles, env, git, registry, buildArgs,
                   templateFiles, sources, image, docker, pushIdx,
                   updIdx, written, tfiles0, run, prev>>
    /\ LET r == SourceLines(Clean(cmd.workingDir), SourceAt(sources, srcIdx + 1),
                            cmd.m, fs, git)
       IN  IF ~r.ok
           THEN /\ ExitAbout(1, "source", r.err)
                /\ fingerprint' = fingerprintFromSHA1(h)
                /\ UNCHANGED <<srcIdx, h>>
           ELSE /\ h' = h \o r.lines
                /\ srcIdx' = srcIdx + 1
                /\ UNCHANGED <<pc, exit, fingerprint>>

\* One iteration of the loop over the sources.
FingerprintSource ==
    /\ pc = "sources"
    /\ srcIdx < Len(sources)
    /\ UNCHANGED <<cmd, fs, tfiles, env, git, registry, buildArgs,
                   templateFiles, sources, fingerprint, image, docker, pushIdx,
                   updIdx, written, tfiles0, run, prev>>
    /\ LET r == SourceLines(Clean(cmd.workingDir), SourceAt(sources, srcIdx + 1),
                            cmd.m, fs, git)
       IN  IF ~r.ok
           THEN ExitAbout(1, "source", r.err) /\ UNCHANGED <<srcIdx, h>>
           ELSE /\ h' = h \o r.lines
                /\ srcIdx' = srcIdx + 1
                /\ UNCHANGED <<pc, exit>>

\* The image name that findOrBuildAndPushImage derives from a fingerprint.
WithTag(imageName, tag) == imageName \o <<":">> \o tag

\* The loop over the build arguments and the return of
\* computeImageFingerprint, then the name of the fingerprinted image.
FinishFingerprint ==
    /\ pc = "sources"
    /\ srcIdx = Len(sources)
    /\ UNCHANGED <<cmd, fs, tfiles, env, git, registry, buildArgs,
                   templateFiles, sources, srcIdx, docker, pushIdx, updIdx,
                   exit, written, tfiles0, run, prev>>
    /\ h' = h \o ArgLines(buildArgs)
    /\ fingerprint' = fingerprintFromSHA1(h')
    /\ image' = WithTag(cmd.imageName, <<fingerprint'.hash>>)
    /\ pc' = "inspect"

(***************************************************************************)
(* findOrBuildAndPushImage: the docker commands                            *)
(***************************************************************************)
Call(argv, outcome) == [argv |-> argv, outcome |-> outcome]

QuietArg(quiet) == IF quiet THEN <<wQ>> ELSE <<>>

TagArgs(flag, imageName, tags) ==
    Concat([i \in 1..Len(tags) |-> <<flag, WithTag(imageName, tags[i])>>])

BuildArgArgs(args) == Concat([i \in 1..Len(args) |-> <<wBuildArg, args[i]>>])

\* The arguments of docker build.
BuildArgv(img, imageName, tags, quiet, dockerfile, args) ==
    <<wBuild, Dot, wT, img>> \o TagArgs(wT, imageName, tags) \o QuietArg(quiet)
        \o (IF dockerfile # <<>> THEN <<wF, dockerfile>> ELSE <<>>)
        \o BuildArgArgs(args)

\* ImagesToPush, were the additional tags pushed before the fingerprint
ImagesToPushTagsFirst(img, imageName, tags) ==
    [i \in 1..Len(tags) |-> WithTag(imageName, tags[i])] \o <<img>>

\* imagesToPush
ImagesToPush(img, imageName, tags) ==
    <<img>> \o [i \in 1..Len(tags) |-> WithTag(imageName, tags[i])]

\* docker manifest inspect: the image is reported missing only if it is.
ManifestInspect ==
    /\ pc = "inspect"
    /\ UNCHANGED <<cmd, fs, tfiles, env, git, buildArgs, templateFiles,
                   sources, srcIdx, h, fingerprint, image, pushIdx, updIdx,
                   written, tfiles0, run, prev>>
    /\ \E o \in Outcomes :
          /\ o = "notfound" => image \notin registry
          /\ docker' = Append(docker, Call(<<wManifest, wInspect, image>>, o))
          /\ registry' = IF o = "ok" THEN registry \cup {image} ELSE registry
          /\ IF o = "ok"
             THEN pc' = (IF Len(cmd.t) > 0 THEN "tag" ELSE "update")
                  /\ UNCHANGED exit
             ELSE IF ~IsExitError(o)
             THEN Exit(1, "inspect")
             ELSE pc' = "build" /\ UNCHANGED exit

\* docker buildx imagetools create, when the image exists and tags are given
TagImage ==
    /\ pc = "tag"
    /\ UNCHANGED <<cmd, fs, tfiles, env, git, buildArgs, templateFiles,
                   sources, srcIdx, h, fingerprint, image, pushIdx, updIdx,
                   written, tfiles0, run, prev>>
    /\ \E o \in Outcomes \ {"notfound"} :
          /\ docker' = Append(docker,
                 Call(<<wBuildx, wImagetools, wCreate, image>>
                          \o TagArgs(wTag, cmd.imageName, cmd.t), o))
          /\ registry' = IF o = "ok"
                         THEN registry \cup {WithTag(cmd.imageName, cmd.t[i]) :
                                                 i \in 1..Len(cmd.t)}
                         ELSE registry
          /\ IF o = "ok" THEN pc' = "update" /\ UNCHANGED exit
             ELSE Exit(1, "tag")

\* BuildImage, were main to go on to the template files after a failed build
BuildImageErrorIgnored ==
    /\ pc = "build"
    /\ UNCHANGED <<cmd, fs, tfiles, env, git, registry, buildArgs,
                   templateFiles, sources, srcIdx, h, fingerprint, image,
                   updIdx, written, tfiles0, run, prev, exit>>
    /\ \E o \in Outcomes \ {"notfound"} :
          /\ docker' = Append(docker,
                 Call(BuildArgv(image, cmd.imageName, cmd.t, cmd.q, cmd.f,
                                buildArgs), o))
          /\ IF o = "ok" THEN pc' = "push" /\ pushIdx' = 0
             ELSE pc' = "update" /\ UNCHANGED pushIdx

\* docker build
BuildImage ==
    /\ pc = "build"
    /\ UNCHANGED <<cmd, fs, tfiles, env, git, registry, buildArgs,
                   templateFiles, sources, srcIdx, h, fingerprint, image,
                   updIdx, written, tfiles0, run, prev>>
    /\ \E o \in Outcomes \ {"notfound"} :
          /\ docker' = Append(docker,
                 Call(BuildArgv(image, cmd.imageName, cmd.t, cmd.q, cmd.f,
                                buildArgs), o))
          /\ IF o = "ok" THEN pc' = "push" /\ pushIdx' = 0 /\ UNCHANGED exit
             ELSE Exit(1, "build") /\ UNCHANGED pushIdx

\* PushImage, were a failed push tried again
PushImageRetry ==
    /\ pc = "push"
    /\ UNCHANGED <<cmd, fs, tfiles, env, git, buildArgs, templateFiles,
                   sources, srcIdx, h, fingerprint, image, updIdx, written,
                   tfiles0, run, prev>>
    /\ LET imageNameWithTag ==
               ImagesToPush(image, cmd.imageName, cmd.t)[pushIdx + 1]
       IN  \E o \in Outcomes \ {"notfound"} :
              /\ docker' = Append(docker,
                     Call(<<wPush, imageNameWithTag>> \o QuietArg(cmd.q), o))
              /\ IF o = "ok"
                 THEN /\ registry' = registry \cup {imageNameWithTag}
                      /\ pushIdx' = pushIdx + 1
                      /\ pc' = IF pushIdx + 1 = Len(cmd.t) + 1
                               THEN "update" ELSE "push"
                      /\ UNCHANGED exit
                 ELSE UNCHANGED <<registry, pushIdx, pc, exit>>

\* One iteration of the loop that pushes the images.
PushImage ==
    /\ pc = "push"
    /\ UNCHANGED <<cmd, fs, tfiles, env, git, buildArgs, templateFiles,
                   sources, srcIdx, h, fingerprint, image, updIdx, written,
                   tfiles0, run, prev>>
    /\ LET imageNameWithTag ==
               ImagesToPush(image, cmd.imageName, cmd.t)[pushIdx + 1]
       IN  \E o \in Outcomes \ {"notfound"} :
              /\ docker' = Append(docker,
                     Call(<<wPush, imageNameWithTag>> \o QuietArg(cmd.q), o))
              /\ IF o = "ok"
                 THEN /\ registry' = registry \cup {imageNameWithTag}
                      /\ pushIdx' = pushIdx + 1
                      /\ pc' = IF pushIdx + 1 = Len(cmd.t) + 1
                               THEN "update" ELSE "push"
                      /\ UNCHANGED exit
                 ELSE Exit(1, "push") /\ UNCHANGED <<registry, pushIdx>>

(***************************************************************************)
(* main: the update of the template files                                  *)
(***************************************************************************)
\* The bytes that main writes to a template file.
NewContents(tf, img) == ReplaceAll(tf.contents, tf.placeholder, img)

\* One iteration of the loop over the template files; os.WriteFile may fail.
UpdateTemplate ==
    /\ pc = "update"
    /\ updIdx < Len(templateFiles)
    /\ UNCHANGED <<cmd, fs, env, git, registry, buildArgs, templateFiles,
                   sources, srcIdx, h, fingerprint, image, docker, pushIdx,
                   tfiles0, run, prev>>
    /\ LET tf == templateFiles[updIdx + 1]
       IN  IF tf.placeholder = image
           THEN /\ updIdx' = updIdx + 1
                /\ UNCHANGED <<tfiles, written, pc, exit>>
           ELSE \/ /\ tfiles[tf.filename].writable
                   /\ tfiles' = [tfiles EXCEPT
                                    ![tf.filename].data = NewContents(tf, image)]
                   /\ written' = Append(written, tf.filename)
                   /\ updIdx' = updIdx + 1
                   /\ UNCHANGED <<pc, exit>>
                \/ /\ ~tfiles[tf.filename].writable
                   /\ Exit(1, "write")
                   /\ UNCHANGED <<tfiles, written, updIdx>>

\* main returns
Return ==
    /\ pc = "update"
    /\ updIdx = Len(templateFiles)
    /\ Exit(0, "")
    /\ UNCHANGED <<cmd, fs, tfiles, env, git, registry, buildArgs,
                   templateFiles, sources, srcIdx, h, fingerprint, image,
                   docker, pushIdx, updIdx, written, tfiles0, run, prev>>

(***************************************************************************)
(* The next run of docker-reuse, on what the previous run left, possibly   *)
(* after the user has edited the build context or the command line.        *)
(***************************************************************************)
\* What a run was given and what it did.
Summary ==
    [cmd |-> cmd, fs |-> fs, env |-> env, git |-> git, tfiles0 |-> tfiles0,
     tfiles |-> tfiles, fingerprint |-> fingerprint, exit |-> exit,
     written |-> written]

\* The locals of main before it starts.
Fresh ==
    /\ pc = "start"
    /\ buildArgs = <<>>
    /\ templateFiles = <<>>
    /\ sources = <<>>
    /\ srcIdx = 0
    /\ h = <<>>
    /\ fingerprint = ZeroFingerprint
    /\ image = <<>>
    /\ docker = <<>>
    /\ pushIdx = 0
    /\ updIdx = 0
    /\ exit = [code |-> 0, err |-> "", about |-> ""]
    /\ written = <<>>

\* The user runs docker-reuse again once a run has succeeded.
StartNextRun ==
    /\ pc = "done"
    /\ exit.code = 0
    /\ run < MaxRuns
    /\ run' = run + 1
    /\ prev' = <<Summary>>
    /\ tfiles0' = tfiles
    /\ pc' = "start"
    /\ buildArgs' = <<>>
    /\ templateFiles' = <<>>
    /\ sources' = <<>>
    /\ srcIdx' = 0
    /\ h' = <<>>
    /\ fingerprint' = ZeroFingerprint
    /\ image' = <<>>
    /\ docker' = <<>>
    /\ pushIdx' = 0
    /\ updIdx' = 0
    /\ exit' = [code |-> 0, err |-> "", about |-> ""]
    /\ written' = <<>>
    /\ UNCHANGED <<tfiles, registry>>

\* The same command again, nothing having changed.
Rerun == StartNextRun /\ UNCHANGED envVars

\* The bytes that an edit may give to a file.
FileBytes == {<<>>, <<"x">>, <<"y">>, <<"x", "y">>}

\* The names that an edit may give to a file.
FileNames == {<<"a">>, <<"b">>}

RegularFiles(fsys) == {p \in DOMAIN fsys : fsys[p].kind = "file"}

\* The user changes the bytes of a file of the build context.
RerunAfterEdit ==
    /\ StartNextRun
    /\ \E p \in RegularFiles(fs) : \E b \in FileBytes :
          /\ Base(p) # wDockerfile
          /\ b # fs[p].data
          /\ fs' = [fs EXCEPT ![p].data = b]
    /\ UNCHANGED <<cmd, env, git>>

\* The user renames a file of the build context.
RerunAfterRename ==
    /\ StartNextRun
    /\ \E p \in RegularFiles(fs) : \E n \in FileNames :
          LET q == Append(SubSeq(p, 1, Len(p) - 1), n)
          IN  /\ Base(p) # wDockerfile
              /\ q \notin DOMAIN fs
              /\ fs' = [r \in (DOMAIN fs \ {p}) \cup {q} |->
                           IF r = q THEN fs[p] ELSE fs[r]]
    /\ UNCHANGED <<cmd, env, git>>

\* The values that the user may give to a build argument.
ArgValues == {<<"1">>, <<"2">>}

\* The user changes the value of a build argument on the command line.
RerunAfterArg ==
    /\ StartNextRun
    /\ \E i \in 1..Len(cmd.args) : \E v \in ArgValues :
          LET name == SubSeq(cmd.args[i], 1,
                             CHOOSE k \in 0..Len(cmd.args[i]) :
                                 /\ k < Len(cmd.args[i]) => cmd.args[i][k + 1] = "="
                                 /\ \A j \in 1..k : cmd.args[i][j] # "=")
          IN  /\ name \o <<"=">> \o v # cmd.args[i]
              /\ cmd' = [cmd EXCEPT !.args[i] = name \o <<"=">> \o v]
    /\ UNCHANGED <<fs, env, git>>

\* The user swaps two different build arguments on the command line.
RerunAfterSwapArgs ==
    /\ StartNextRun
    /\ \E i, j \in 1..Len(cmd.args) :
          /\ i < j
          /\ cmd.args[i] # cmd.args[j]
          /\ cmd' = [cmd EXCEPT !.args[i] = cmd.args[j], !.args[j] = cmd.args[i]]
    /\ UNCHANGED <<fs, env, git>>

\* The user selects another fingerprinting mode.
RerunAfterMode ==
    /\ StartNextRun
    /\ \E m \in {modeCommit, modeSHA1, modeAuto} \ {cmd.m} :
          cmd' = [cmd EXCEPT !.m = m]
    /\ UNCHANGED <<fs, env, git>>

(***************************************************************************)
(* The initial states: the command lines and the environments that the     *)
(* model starts docker-reuse on.                                           *)
(***************************************************************************)
nA == <<"a">>

nB == <<"b">>

nC == <<"c">>

nD == <<"d">>

nK == <<"k">>

nL == <<"l">>

nH == <<".", "h">>

kwRun == <<"r", "u", "n">>

RECURSIVE JoinWith(_, _)
JoinWith(ws, sep) ==
    IF ws = <<>> THEN <<>>
    ELSE IF Len(ws) = 1 THEN ws[1]
    ELSE ws[1] \o <<sep>> \o JoinWith(Tail(ws), sep)

\* One line of a Dockerfile.
Line(ws) == JoinWith(ws, " ") \o <<"\n">>

\* The Dockerfiles of the model.
RecipeNone == Line(<<kwRun, nA>>)

RecipeDir == Line(<<kwCopy, nL, nD>>)

RecipeFileDir == Line(<<kwCopy, nA, nL, nD>>)

RecipeDirFile == Line(<<kwCopy, nL, nA, nD>>)

RecipeUnclean ==
    Line(<<kwCopy, <<".", "/", "a">>, nD>>) \o Line(<<kwAdd, <<"l", "/">>, nA, nD>>)

RecipeGlob ==
    Line(<<kwCopy, flagFrom \o <<"=", "b">>, nB, nD>>)
        \o Line(<<kwCopy, <<"l", "/", "*">>, nD>>)

RecipeEmpty == <<>>

\* The same sources named by two instructions.
RecipeDup == Line(<<kwCopy, nL, nA, nD>>) \o Line(<<kwAdd, nA, nL, nD>>)

\* The destination of one instruction is the source of the next, and an
\* instruction with a destination only.
RecipeChain ==
    Line(<<kwCopy, nA, nL>>) \o Line(<<kwCopy, nL, nD>>) \o Line(<<kwCopy, nD>>)

Recipes == {RecipeNone, RecipeDir, RecipeFileDir, RecipeDirFile, RecipeUnclean,
            RecipeGlob, RecipeEmpty, RecipeDup, RecipeChain,
            Line(<<kwCopy, nA, nD>>) \o Line(<<kwCopy, <<"l", "/">>, nD>>),
            Line(<<kwCopy, nL, <<"a", "/", "*">>, nD>>),
            Line(<<kwRun, nA>>) \o Line(<<kwCopy, flagFrom \o <<"=", "b">>, nB, nD>>),
            Line(<<kwCopy, <<"l", "/", ".", "h">>, nD>>)}

\* The user rewrites the Dockerfile of the run; the new one names the same
\* sources, possibly in another order.
RerunAfterRecipe ==
    /\ StartNextRun
    /\ \E r \in Recipes :
          LET df == DockerfilePath(cmd.workingDir, cmd.f)
              old == collectSourcesFromDockerfile(fs[df].data).sources
              new == collectSourcesFromDockerfile(r).sources
          IN  /\ r # fs[df].data
              /\ {old[i] : i \in 1..Len(old)} = {new[i] : i \in 1..Len(new)}
              /\ fs' = [fs EXCEPT ![df].data = r]
    /\ UNCHANGED <<cmd, env, git>>

\* Function union, the left operand first.
Merge(f, g) == [x \in DOMAIN f \cup DOMAIN g |-> IF x \in DOMAIN f THEN f[x] ELSE g[x]]

One(x, v) == [y \in {x} |-> v]

Nothing == [y \in {} |-> Dir]

\* Where the model puts the build context: in the directory c.
Ctx(p) == <<nC>> \o p

\* The contents of the file a of the build context.
FileChoices ==
    {Nothing, One(Ctx(<<nA>>), File(<<"x">>)), One(Ctx(<<nA>>), File(<<"y">>)),
     One(Ctx(<<nA>>), Locked)}

InL(p) == Ctx(<<nL>> \o p)

InH(p) == InL(<<nH>> \o p)

\* The contents of the directory l of the build context.
DirChoices ==
    {Nothing,
     Merge(One(InL(<<>>), Dir), One(InL(<<nA>>), File(<<"x">>))),
     Merge(One(InL(<<>>), Dir), One(InL(<<nB>>), File(<<"x">>))),
     Merge(One(InL(<<>>), Dir),
           Merge(One(InL(<<nA>>), File(<<"x">>)), One(InL(<<nB>>), File(<<"y">>)))),
     Merge(One(InL(<<>>), Dir),
           Merge(One(InL(<<nA>>), File(<<"x", "y">>)), One(InL(<<nB>>), File(<<>>)))),
     Merge(One(InL(<<>>), Dir),
           Merge(One(InL(<<nA>>), File(<<"x">>)),
                 Merge(One(InH(<<>>), Dir), One(InH(<<nA>>), File(<<"x">>))))),
     Merge(One(InL(<<>>), Dir),
           Merge(One(InL(<<nA>>), File(<<"x">>)),
                 Merge(One(InH(<<>>), Dir), One(InH(<<nA>>), File(<<"y">>))))),
     Merge(One(InL(<<>>), Dir),
           Merge(One(InL(<<nA>>), File(<<"x">>)), One(InL(<<nK>>), Link(InL(<<>>))))),
     Merge(One(InL(<<>>), Dir),
           Merge(One(InL(<<nA>>), File(<<"x">>)),
                 Merge(One(InL(<<nB>>), Dir),
                       Merge(One(InL(<<nB, nA>>), File(<<"y">>)),
                             One(InL(<<nK>>), Link(InL(<<nB>>)))))))}

\* A file system with the Dockerfile of the process directory, the build
\* context c with its Dockerfile, and more.
FsWith(recipe, more) ==
    Merge(One(<<>>, Dir),
          Merge(One(<<wDockerfile>>, File(RecipeNone)),
                Merge(One(<<nC>>, Dir),
                      Merge(One(Ctx(<<wDockerfile>>), File(recipe)), more))))

BaseFs == FsWith(RecipeDir, Merge(One(InL(<<>>), Dir), One(InL(<<nA>>), File(<<"x">>))))

BaseCmd ==
    [workingDir |-> nC, imageName |-> <<"m">>, args |-> <<>>, f |-> <<>>,
     u |-> <<>>, p |-> <<>>, t |-> <<>>, m |-> modeSHA1, q |-> FALSE]

NoEnv == [n \in {} |-> [found |-> FALSE, value |-> <<>>]]

NoGit == [repo |-> FALSE, dirty |-> {}, log |-> <<>>]

TemplateFile(data) == [readable |-> TRUE, writable |-> TRUE, data |-> data]

BaseTemplates == [n \in {"t1", "t2"} |-> TemplateFile(<<"m">>)]

BaseScenario ==
    [cmd |-> BaseCmd, fs |-> BaseFs, env |-> NoEnv, git |-> NoGit,
     tfiles |-> BaseTemplates]

\* The build contexts and the Dockerfiles, hashed by content.
ContextScenarios ==
    {[BaseScenario EXCEPT !.fs = FsWith(recipe, Merge(f, d))] :
         recipe \in Recipes, f \in FileChoices, d \in DirChoices}

\* The states of the git repository.
Commit(id, files) == [id |-> id, files |-> files]

GitLog ==
    <<Commit("<c2>", {PathString(InL(<<nA>>))}),
      Commit("<c1>", {PathString(Ctx(<<nA>>)), PathString(Ctx(<<wDockerfile>>))})>>

GitChoices ==
    {NoGit,
     [repo |-> TRUE, dirty |-> {}, log |-> GitLog],
     [repo |-> TRUE, dirty |-> {PathString(Ctx(<<nA>>))}, log |-> GitLog],
     [repo |-> TRUE, dirty |-> {PathString(InL(<<nB>>))}, log |-> GitLog],
     [repo |-> TRUE, dirty |-> {}, log |-> <<>>],
     [repo |-> TRUE, dirty |-> {},
      log |-> <<Commit("<x>", {PathString(Ctx(<<nA>>)), PathString(InL(<<nA>>))})>>],
     [repo |-> TRUE, dirty |-> {PathString(Ctx(<<<<"a", "b">>>>))}, log |-> GitLog],
     [repo |-> TRUE, dirty |-> {},
      log |-> <<Commit("<c3>", {PathString(Ctx(<<<<"a", "b">>>>))})>> \o GitLog],
     [repo |-> TRUE, dirty |-> {},
      log |-> <<Commit("<c3>", {PathString(Ctx(<<<<"a", "b">>>>)),
                                PathString(Ctx(<<<<"l", "a">>>>))})>>]}

\* The fingerprinting modes, over the states of the repository.
ModeScenarios ==
    {[BaseScenario EXCEPT !.cmd.m = m, !.git = g, !.fs = FsWith(recipe, Merge(f, d))] :
         m \in {modeCommit, modeSHA1, modeAuto, <<"x">>}, g \in GitChoices,
         recipe \in {RecipeFileDir}, f \in {One(Ctx(<<nA>>), File(<<"x">>)),
                                            One(Ctx(<<nA>>), Locked)},
         d \in {Merge(One(InL(<<>>), Dir), One(InL(<<nA>>), File(<<"x">>)))}}

\* The build arguments and the environment variables.
ArgChoices ==
    {<<>>, <<<<"a", "=", "1">>>>, <<nB>>, <<<<"a", "=", "1">>, nB>>,
     <<nB, <<"a", "=">>>>, <<<<"a", "=", "1">>, <<"b", "=", "2">>>>,
     <<<<"a", "=", "1", "\n", "a", "=", "1">>, <<"a", "=", "1">>>>}

EnvChoices ==
    {NoEnv, One(nB, [found |-> TRUE, value |-> <<"1">>]),
     One(nB, [found |-> TRUE, value |-> <<>>])}

\* The build arguments over a declared directory and over a glob pattern
\* with two matches.
ArgScenarios ==
    {[BaseScenario EXCEPT !.cmd.args = a, !.env = e, !.cmd.u = u, !.fs = f] :
         a \in ArgChoices, e \in EnvChoices, u \in {<<>>, <<"t1">>},
         f \in {BaseFs,
                FsWith(RecipeGlob,
                       Merge(One(InL(<<>>), Dir),
                             Merge(One(InL(<<nA>>), File(<<"x">>)),
                                   One(InL(<<nB>>), File(<<"y">>)))))}}

\* The build context, the Dockerfile, the tags and the quiet flag.
DirScenarios ==
    {[BaseScenario EXCEPT !.cmd.workingDir = w, !.cmd.f = f, !.cmd.t = t,
                          !.cmd.q = q, !.cmd.args = a] :
         w \in {Dot, nC, <<".", "/", "c", "/">>},
         f \in {<<>>, PathString(Ctx(<<wDockerfile>>))},
         t \in {<<>>, <<<<"1">>>>, <<<<"1">>, <<"2">>>>, <<<<"1">>, <<"1">>>>},
         q \in BOOLEAN,
         a \in {<<>>, <<<<"a", "=", "1">>>>}}

\* The template files.
TemplateAlphabet == {"m", ":", "1", " "}

TemplateContents(n) == UNION {[1..k -> TemplateAlphabet] : k \in 0..n}

\* The contents of the template files when two are given.
TwoFileContents ==
    {<<"m">>, <<"m", ":", "1">>, <<"m", " ", "1">>, <<"m", "m", ":", "1">>, <<"1">>}

TemplateScenarios ==
    {[BaseScenario EXCEPT !.cmd.u = <<"t1">>, !.cmd.p = p,
                          !.tfiles["t1"] = TemplateFile(c)] :
         c \in TemplateContents(MaxTemplateLen), p \in {<<>>, <<"1">>}}
    \cup
    {[BaseScenario EXCEPT !.cmd.u = u, !.cmd.p = p,
                          !.tfiles["t1"] = TemplateFile(c1),
                          !.tfiles["t2"] = TemplateFile(c2)] :
         u \in {<<"t1", "t2">>, <<"t2", "t1">>, <<"t1", "t1">>},
         p \in {<<>>, <<"1">>}, c1 \in TwoFileContents, c2 \in TwoFileContents}
    \cup
    {[BaseScenario EXCEPT !.cmd.u = u, !.cmd.p = p,
                          !.tfiles["t2"] = [tf EXCEPT !.data = <<"m", " ", "1">>]] :
         u \in {<<"t1", "t2">>, <<"t2", "t1">>, <<>>}, p \in {<<>>, <<"1">>},
         tf \in {[readable |-> FALSE, writable |-> TRUE, data |-> <<>>],
                 [readable |-> TRUE, writable |-> FALSE, data |-> <<>>]}}

Scenarios ==
    ContextScenarios \cup ModeScenarios \cup ArgScenarios \cup DirScenarios
        \cup TemplateScenarios

InitOn(S) ==
    /\ \E s \in S :
          /\ cmd = s.cmd
          /\ fs = s.fs
          /\ env = s.env
          /\ git = s.git
          /\ tfiles = s.tfiles
          /\ tfiles0 = s.tfiles
    /\ registry = {}
    /\ run = 1
    /\ prev = <<>>
    /\ Fresh

\* docker-reuse, run again and again on what it left.
Init == InitOn(Scenarios)

Next ==
    \/ ParseCommandLine
    \/ ReadTemplate
    \/ StartFingerprint
    \/ FingerprintSource
    \/ FinishFingerprint
    \/ ManifestInspect
    \/ TagImage
    \/ BuildImage
    \/ PushImage
    \/ UpdateTemplate
    \/ Return
    \/ Rerun

Spec == Init /\ [][Next]_vars

\* docker-reuse, run again after the user has edited the build context or
\* the build arguments.
EditInit ==
    InitOn(ContextScenarios \cup ModeScenarios \cup ArgScenarios \cup DirScenarios)

EditNext ==
    \/ ParseCommandLine
    \/ ReadTemplate
    \/ StartFingerprint
    \/ FingerprintSource
    \/ FinishFingerprint
    \/ ManifestInspect
    \/ TagImage
    \/ BuildImage
    \/ PushImage
    \/ UpdateTemplate
    \/ Return
    \/ Rerun
    \/ RerunAfterEdit
    \/ RerunAfterRename
    \/ RerunAfterArg
    \/ RerunAfterRecipe
    \/ RerunAfterSwapArgs
    \/ RerunAfterMode

EditSpec == EditInit /\ [][EditNext]_vars

(***************************************************************************)
(* Properties                                                              *)
(***************************************************************************)
\* The run has a predecessor, and the command line, the file tree, the
\* environment variables and the repository are what they were then.
Unchanged ==
    /\ prev # <<>>
    /\ cmd = prev[1].cmd
    /\ fs = prev[1].fs
    /\ env = prev[1].env
    /\ git = prev[1].git

RecipeBytes(c, fsys) == OpenRead(fsys, DockerfilePath(c.workingDir, c.f)).data

\* The paths that the sources of the Dockerfile stand for.
DeclaredPaths(c, fsys) ==
    LET srcs == collectSourcesFromDockerfile(RecipeBytes(c, fsys)).sources
        Paths(i) == LET p == JoinPath(Clean(c.workingDir), srcs[i])
                    IN  IF Stat(fsys, p) = "ok" THEN {p}
                        ELSE {Glob(fsys, p)[k] : k \in 1..Len(Glob(fsys, p))}
    IN  UNION {Paths(i) : i \in 1..Len(srcs)}

\* The regular files under the declared sources with no hidden component in
\* their path, each with its bytes.
CoveredFiles(c, fsys) ==
    {<<p, fsys[p].data>> :
         p \in {q \in RegularFiles(fsys) :
                   /\ \E r \in DeclaredPaths(c, fsys) : HasPrefix(q, r)
                   /\ \A i \in 1..Len(q) : q[i][1] # "."}}

\* The build arguments as they are passed on.
ResolvedArgs(c, e) == [i \in 1..Len(c.args) |-> ResolveBuildArg(e, c.args[i]).arg]

\* C2: under mode sha1, two runs whose inputs differ in the bytes of the
\* Dockerfile, in the name or the bytes of a non-hidden regular file under a
\* declared source, or in a build argument, compute different fingerprints.
C2_CoversEverything ==
    ( /\ prev # <<>>
      /\ fingerprint # ZeroFingerprint
      /\ cmd.m = modeSHA1
      /\ prev[1].cmd.m = modeSHA1
      /\ \/ RecipeBytes(cmd, fs) # RecipeBytes(prev[1].cmd, prev[1].fs)
         \/ CoveredFiles(cmd, fs) # CoveredFiles(prev[1].cmd, prev[1].fs)
         \/ ResolvedArgs(cmd, env) # ResolvedArgs(prev[1].cmd, prev[1].env) )
    => fingerprint # prev[1].fingerprint

\* The images that the claim expects to be pushed, in order.
ExpectedPushes == <<image>> \o [i \in 1..Len(cmd.t) |-> cmd.imageName \o <<":">> \o cmd.t[i]]

\* C3: when docker manifest inspect succeeds, no build and no push is run;
\* when it reports that the image is missing, docker build is run once, and
\* only after it has succeeded the fingerprinted image and then each
\* additional tag are pushed, in order, each after the one before succeeded.
C3_FindOrBuild ==
    docker # <<>> =>
        /\ docker[1].outcome = "ok" =>
               \A i \in 1..Len(docker) : docker[i].argv[1] \notin {wBuild, wPush}
        /\ docker[1].outcome = "notfound" =>
               /\ Len(docker) <= 2 + Len(ExpectedPushes)
               /\ pc = "build" <=> Len(docker) = 1
               /\ Len(docker) >= 2 => docker[2].argv[1] = wBuild
               /\ \A i \in 3..Len(docker) :
                     /\ docker[i - 1].outcome = "ok"
                     /\ docker[i].argv[1] = wPush
                     /\ docker[i].argv[2] = ExpectedPushes[i - 2]
               /\ pc = "update" \/ (pc = "done" /\ exit.code = 0) =>
                     /\ Len(docker) = 2 + Len(ExpectedPushes)
                     /\ docker[Len(docker)].outcome = "ok"

C3_Witness ==
    /\ pc = "done"
    /\ exit.code = 0
    /\ docker # <<>>
    /\ docker[1].outcome = "notfound"
    /\ Len(cmd.t) = 2
    /\ Len(docker) = 5

\* C4 as claimed: a manifest inspect that exits non-zero for another reason
\* than a missing image ends the run with an error, and nothing is built.
C4_NonZeroExitIsError ==
    (docker # <<>> /\ docker[1].outcome = "denied") =>
        /\ pc = "done"
        /\ exit.code # 0
        /\ Len(docker) = 1

\* C4: a manifest inspect that could not be run at all ends the run with its
\* error, before any build or push; every non-zero exit code of the command,
\* whatever its reason, is taken to mean that the image is missing, and the
\* build is what follows.
C4_OnlyStartFailureIsError ==
    docker # <<>> =>
        /\ docker[1].outcome = "nostart" =>
               /\ pc = "done"
               /\ exit.code = 1
               /\ exit.err = "inspect"
               /\ Len(docker) = 1
        /\ docker[1].outcome \in {"notfound", "denied"} =>
               \/ pc = "build" /\ Len(docker) = 1
               \/ Len(docker) >= 2 /\ docker[2].argv[1] = wBuild

C4_Witness ==
    /\ Len(docker) >= 2
    /\ docker[1].outcome = "denied"
    /\ docker[2].argv[1] = wBuild

\* The values that follow the option flag in a docker command line.
OptionValues(argv, flag) ==
    LET at == {k \in 1..(Len(argv) - 1) : argv[k] = flag}
        RECURSIVE Values(_)
        Values(k) == IF k > Len(argv) - 1 THEN <<>>
                     ELSE IF k \in at THEN <<argv[k + 1]>> \o Values(k + 2)
                     ELSE Values(k + 1)
    IN  Values(3)

\* The Dockerfile that docker build reads: the one of -f, or the Dockerfile
\* of its build context.
BuildRecipe(argv) ==
    IF OptionValues(argv, wF) # <<>> THEN Clean(OptionValues(argv, wF)[1])
    ELSE JoinPath(Clean(argv[2]), wDockerfile)

\* C5: docker build is run on what was fingerprinted: its build context is
\* the directory PATH of the command line, its Dockerfile is the one whose
\* bytes and sources were hashed, and its build arguments are the NAME=VALUE
\* strings written to the hash, in the same order.
C5_BuildsWhatWasFingerprinted ==
    \A i \in 1..Len(docker) :
        docker[i].argv[1] = wBuild =>
            /\ Clean(docker[i].argv[2]) = Clean(cmd.workingDir)
            /\ BuildRecipe(docker[i].argv) = DockerfilePath(cmd.workingDir, cmd.f)
            /\ OptionValues(docker[i].argv, wBuildArg) = buildArgs

EndsWith(s, t) == Len(t) <= Len(s) /\ SubSeq(s, Len(s) - Len(t) + 1, Len(s)) = t

\* The path of the i-th source of the Dockerfile, and its name in the hash.
SourcePath(i) == JoinPath(Clean(cmd.workingDir), sources[i])

SourceName(i) == PathString(Clean(sources[i]))

\* C6: under mode auto a source that exists contributes the commit token
\* whenever getLastCommitHash succeeds, and the token of hashFiles for the
\* same path whenever it fails; the source fails the run if and only if
\* both fail.
C6_AutoFallsBack ==
    cmd.m = modeAuto =>
        /\ \A i \in 1..srcIdx :
               Stat(fs, SourcePath(i)) = "ok" =>
                   getLastCommitHash(git, SourcePath(i)).ok
                       \/ hashFiles(fs, SourcePath(i)).ok
        /\ (pc = "sources" /\ srcIdx >= 1 /\ Stat(fs, SourcePath(srcIdx)) = "ok") =>
               /\ getLastCommitHash(git, SourcePath(srcIdx)).ok =>
                      EndsWith(h, SourceLine(SourceName(srcIdx),
                                   getLastCommitHash(git, SourcePath(srcIdx)).fp))
               /\ ~getLastCommitHash(git, SourcePath(srcIdx)).ok =>
                      EndsWith(h, SourceLine(SourceName(srcIdx),
                                   hashFiles(fs, SourcePath(srcIdx)).fp))
        /\ (pc = "done" /\ exit.err = "source"
                /\ Stat(fs, SourcePath(srcIdx + 1)) = "ok") =>
               /\ ~getLastCommitHash(git, SourcePath(srcIdx + 1)).ok
               /\ ~hashFiles(fs, SourcePath(srcIdx + 1)).ok

C6_Witness ==
    /\ cmd.m = modeAuto
    /\ pc = "sources"
    /\ srcIdx >= 1
    /\ Stat(fs, SourcePath(srcIdx)) = "ok"
    /\ ~getLastCommitHash(git, SourcePath(srcIdx)).ok
    /\ git.repo

\* A build argument has no '=' and its environment variable is not set.
MissingParameter ==
    \E i \in 1..Len(cmd.args) :
        ~ContainsRune(cmd.args[i], "=") /\ ~LookupEnv(env, cmd.args[i]).found

\* C7: a build argument without '=' whose environment variable is not set
\* makes the run fail, with the error about the variable when the command
\* line is otherwise accepted, before anything is hashed, before any docker
\* command, and no value is made up for the argument.
C7_MissingParameterFails ==
    MissingParameter =>
        /\ pc \in {"start", "done"}
        /\ pc = "done" => exit.code # 0
        /\ (pc = "done" /\ (cmd.p = <<>> \/ cmd.u # <<>>)
                /\ cmd.m \in {modeCommit, modeSHA1, modeAuto}) =>
               exit.code = 1 /\ exit.err = "param"
        /\ buildArgs = <<>>
        /\ h = <<>>
        /\ fingerprint = ZeroFingerprint
        /\ docker = <<>>
        /\ written = <<>>
        /\ tfiles = tfiles0

C7_Witness ==
    /\ MissingParameter
    /\ pc = "done"
    /\ exit.err = "param"
    /\ Len(cmd.args) = 2

\* The number of tag characters of s from index j on.
TagRun(s, j) ==
    CHOOSE n \in 0..Len(s) :
        /\ \A k \in 0..(n - 1) : j + k <= Len(s) /\ IsTagChar(s[j + k])
        /\ ~(j + n <= Len(s) /\ IsTagChar(s[j + n]))

\* The reference to the image that starts at i, where the image name
\* occurs: the name and, if ':' and a tag follow, the colon and the tag.
RefAt(s, name, i) ==
    LET j == i + Len(name)
    IN  IF j <= Len(s) /\ s[j] = ":" /\ TagRun(s, j + 1) > 0
        THEN SubSeq(s, i, j + TagRun(s, j + 1))
        ELSE SubSeq(s, i, j - 1)

RECURSIVE ReferencesFrom(_, _, _)
ReferencesFrom(s, name, i) ==
    IF i > Len(s) THEN <<>>
    ELSE IF OccursAt(s, name, i)
         THEN <<RefAt(s, name, i)>>
                  \o ReferencesFrom(s, name, i + Len(RefAt(s, name, i)))
         ELSE ReferencesFrom(s, name, i + 1)

\* The references to the image in the bytes s, from left to right.
References(s, name) == ReferencesFrom(s, name, 1)

\* Two references to the image in s differ.
Inconsistent(s, name) ==
    \E i, j \in 1..Len(References(s, name)) :
        References(s, name)[i] # References(s, name)[j]

\* C8: when no placeholder is given and two references to the image in a
\* template file differ, the run fails before it computes a fingerprint,
\* runs a docker command or writes a template file.
C8_InconsistentTemplateFailsFirst ==
    ( /\ cmd.p = <<>>
      /\ \E i \in 1..Len(cmd.u) :
            /\ tfiles0[cmd.u[i]].readable
            /\ Inconsistent(tfiles0[cmd.u[i]].data, cmd.imageName) )
    => /\ pc \in {"start", "read", "done"}
       /\ pc = "done" => exit.code # 0
       /\ h = <<>>
       /\ fingerprint = ZeroFingerprint
       /\ docker = <<>>
       /\ written = <<>>
       /\ tfiles = tfiles0

C8_Witness ==
    /\ cmd.p = <<>>
    /\ pc = "done"
    /\ exit.err = "template_inconsistent"
    /\ Len(templateFiles) = 1

\* C9: when the image name is the placeholder, a template file in which two
\* references to the image (the name, optionally followed by ':' and a tag
\* of letters, digits, '.', '_' and '-') differ is refused with the error
\* about different tags that names the file; a file that is accepted has a
\* reference, all its references are the same, and the first one is the
\* placeholder.
C9_TemplateValidation ==
    cmd.p = <<>> =>
        /\ \A k \in 1..Len(templateFiles) :
               /\ References(templateFiles[k].contents, cmd.imageName) # <<>>
               /\ ~Inconsistent(templateFiles[k].contents, cmd.imageName)
               /\ templateFiles[k].placeholder =
                      References(templateFiles[k].contents, cmd.imageName)[1]
        /\ (pc = "done" /\ exit.err \in {"template_noref", "template_inconsistent"}) =>
               LET data == tfiles0[cmd.u[Len(templateFiles) + 1]].data
               IN  /\ exit.about = cmd.u[Len(templateFiles) + 1]
                   /\ exit.err = "template_inconsistent"
                          <=> Inconsistent(data, cmd.imageName)

C9_Witness ==
    /\ cmd.p = <<>>
    /\ pc = "done"
    /\ exit.err = "template_inconsistent"
    /\ exit.about = "t1"
    /\ templateFiles = <<>>
    /\ Len(tfiles0["t1"].data) = MaxTemplateLen

\* C10 (first half): a template file whose placeholder is the name of the
\* fingerprinted image is not written.
C10_NoWriteWhenEqual ==
    \A k \in 1..updIdx :
        templateFiles[k].placeholder = image =>
            ~InSeq(templateFiles[k].filename, written)

\* C10: a template file whose placeholder is the name of the fingerprinted
\* image is not written, and a run on what a successful run left, nothing
\* else having changed, accepts every template file and writes none.
C10_Idempotent ==
    /\ C10_NoWriteWhenEqual
    /\ Unchanged =>
           /\ exit.err \notin {"template_read", "template_noref",
                               "template_inconsistent", "template_noplaceholder",
                               "write"}
           /\ written = <<>>
           /\ tfiles = tfiles0

\* C11: after a successful run with the image name as the placeholder, every
\* reference to the image in every template file of -u is the image name,
\* ':' and the hexadecimal digest of the run's fingerprint, with no mode
\* before it, whether the image was found or built.
C11_AllReferencesTagged ==
    (pc = "done" /\ exit.code = 0 /\ cmd.p = <<>>) =>
        \A i \in 1..Len(cmd.u) :
            LET refs == References(tfiles[cmd.u[i]].data, cmd.imageName)
            IN  /\ refs # <<>>
                /\ \A k \in 1..Len(refs) :
                       refs[k] = cmd.imageName \o <<":", fingerprint.hash>>

\* The instructions of the Dockerfile that the run reads.
Children == Parse(RecipeBytes(cmd, fs)).children

\* An add or copy instruction none of whose flags starts with --from.
Participates(c) ==
    /\ c.value \in {kwAdd, kwCopy}
    /\ \A i \in 1..Len(c.flags) :
           SubSeq(c.flags[i], 1, Len(flagFrom)) # flagFrom

\* C12: every source that collectSourcesFromDockerfile returns is an argument
\* other than the last one (the destination) of an add or copy instruction
\* none of whose flags starts with --from.
C12_OnlyLocalSources ==
    \A k \in 1..Len(sources) :
        \E i \in 1..Len(Children) :
            /\ Participates(Children[i])
            /\ \E j \in 1..(Len(Children[i].next) - 1) :
                   Children[i].next[j] = sources[k]

C12_Witness ==
    /\ sources # <<>>
    /\ \E i \in 1..Len(Children) :
           /\ ~Participates(Children[i])
           /\ Len(Children[i].next) >= 2

RECURSIVE DeclaredTokens(_)
\* The arguments but the last of the add and copy instructions that take
\* their sources from the build context, in the order of the Dockerfile.
DeclaredTokens(children) ==
    IF children = <<>> THEN <<>>
    ELSE (IF Participates(Head(children))
          THEN SubSeq(Head(children).next, 1, Len(Head(children).next) - 1)
          ELSE <<>>) \o DeclaredTokens(Tail(children))

\* Where x is first in the sequence toks.
FirstPos(toks, x) ==
    CHOOSE k \in 1..Len(toks) : toks[k] = x /\ \A n \in 1..(k - 1) : toks[n] # x

\* C13: once the Dockerfile is parsed, the list of sources holds every
\* declared source once, at the place of its first occurrence in the
\* Dockerfile.
C13_OnceInFirstSeenOrder ==
    h # <<>> =>
        LET toks == DeclaredTokens(Children)
        IN  /\ \A i, j \in 1..Len(sources) : i # j => sources[i] # sources[j]
            /\ {sources[i] : i \in 1..Len(sources)} = {toks[k] : k \in 1..Len(toks)}
            /\ \A i, j \in 1..Len(sources) :
                   i < j => FirstPos(toks, sources[i]) < FirstPos(toks, sources[j])

C13_Witness ==
    /\ h # <<>>
    /\ Len(sources) = 2
    /\ Len(DeclaredTokens(Children)) = 4
    /\ DeclaredTokens(Children)[3] = sources[2]

\* The sources that the previous run found in its Dockerfile.
PrevSources ==
    collectSourcesFromDockerfile(RecipeBytes(prev[1].cmd, prev[1].fs)).sources

\* The file tree is the one of the previous run but for the bytes of the
\* Dockerfile.
SameButDockerfile ==
    /\ DOMAIN fs = DOMAIN prev[1].fs
    /\ \A p \in DOMAIN fs :
           p # DockerfilePath(cmd.workingDir, cmd.f) => fs[p] = prev[1].fs[p]

\* C14 (sources): a run whose Dockerfile names the sources of the previous
\* run in another order, all else being the same, computes another
\* fingerprint.
C14_SourceOrderMatters ==
    ( /\ prev # <<>>
      /\ fingerprint # ZeroFingerprint
      /\ cmd = prev[1].cmd /\ env = prev[1].env /\ git = prev[1].git
      /\ SameButDockerfile
      /\ Len(sources) = Len(PrevSources)
      /\ {sources[i] : i \in 1..Len(sources)}
             = {PrevSources[i] : i \in 1..Len(PrevSources)}
      /\ sources # PrevSources )
    => fingerprint # prev[1].fingerprint

\* C14: a run whose Dockerfile names the sources of the previous run in
\* another order computes another fingerprint, and so does a run with two
\* different build arguments of the previous run swapped.
C14_OrderMatters ==
    /\ C14_SourceOrderMatters
    /\ ( /\ prev # <<>>
         /\ fingerprint # ZeroFingerprint
         /\ fs = prev[1].fs /\ env = prev[1].env /\ git = prev[1].git
         /\ \E i, j \in 1..Len(cmd.args) :
               /\ i < j
               /\ buildArgs[i] # buildArgs[j]
               /\ prev[1].cmd = [cmd EXCEPT !.args[i] = cmd.args[j],
                                            !.args[j] = cmd.args[i]] )
       => fingerprint # prev[1].fingerprint

\* The fingerprint that the mode of the command line c gives to the i-th
\* source.
Token(c, i) == computeFingerprint(c.m, fs, git, SourcePath(i)).fp

\* C15: the line of a source in the hash holds its fingerprint as the mode,
\* ':' and the value; two runs that differ in the mode only and find the
\* same values for all sources compute different image fingerprints.
C15_ModeIsPartOfToken ==
    /\ ( /\ cmd.m \in {modeCommit, modeSHA1, modeAuto}
         /\ pc = "sources" /\ srcIdx >= 1
         /\ Stat(fs, SourcePath(srcIdx)) = "ok" )
       => EndsWith(h, SourceName(srcIdx) \o <<"@">> \o Token(cmd, srcIdx).mode
                          \o <<":", Token(cmd, srcIdx).hash, "\n">>)
    /\ ( /\ prev # <<>>
         /\ fingerprint # ZeroFingerprint
         /\ fs = prev[1].fs /\ env = prev[1].env /\ git = prev[1].git
         /\ cmd = [prev[1].cmd EXCEPT !.m = cmd.m]
         /\ sources # <<>>
         /\ \A i \in 1..Len(sources) :
               /\ Stat(fs, SourcePath(i)) = "ok"
               /\ Token(cmd, i).hash = Token(prev[1].cmd, i).hash
         /\ \E i \in 1..Len(sources) :
               Token(cmd, i).mode # Token(prev[1].cmd, i).mode )
       => fingerprint # prev[1].fingerprint

C15_Witness ==
    /\ prev # <<>>
    /\ fingerprint # ZeroFingerprint
    /\ fs = prev[1].fs /\ env = prev[1].env /\ git = prev[1].git
    /\ cmd = [prev[1].cmd EXCEPT !.m = cmd.m]
    /\ sources # <<>>
    /\ \A i \in 1..Len(sources) :
          /\ Stat(fs, SourcePath(i)) = "ok"
          /\ Token(cmd, i).hash = Token(prev[1].cmd, i).hash
          /\ Token(cmd, i).mode # Token(prev[1].cmd, i).mode

\* The path lies below a hidden directory of the build context.
BelowHiddenDir(fsys, p) ==
    \E n \in 2..(Len(p) - 1) :
        /\ p[n][1] = "."
        /\ SubSeq(p, 1, n) \in DOMAIN fsys
        /\ fsys[SubSeq(p, 1, n)].kind = "dir"

\* The file tree differs from the one of the previous run, and only below
\* hidden directories.
OnlyHiddenChanged ==
    /\ fs # prev[1].fs
    /\ \A p \in DOMAIN fs \cup DOMAIN prev[1].fs :
           \/ p \in DOMAIN fs /\ p \in DOMAIN prev[1].fs /\ fs[p] = prev[1].fs[p]
           \/ p \in DOMAIN fs /\ BelowHiddenDir(fs, p)
           \/ p \in DOMAIN prev[1].fs /\ BelowHiddenDir(prev[1].fs, p)

\* C16: under mode sha1, a run after which only the contents of hidden
\* directories have changed computes the same fingerprint.
C16_HiddenDirsIgnored ==
    ( /\ prev # <<>>
      /\ fingerprint # ZeroFingerprint
      /\ cmd.m = modeSHA1
      /\ cmd = prev[1].cmd /\ env = prev[1].env /\ git = prev[1].git
      /\ OnlyHiddenChanged )
    => fingerprint = prev[1].fingerprint

C16_Witness ==
    /\ prev # <<>>
    /\ fingerprint # ZeroFingerprint
    /\ cmd.m = modeSHA1
    /\ cmd = prev[1].cmd
    /\ OnlyHiddenChanged
    /\ \E i \in 1..Len(sources) :
          /\ Stat(fs, SourcePath(i)) = "ok"
          /\ fs[SourcePath(i)].kind = "dir"
          /\ \E p \in DOMAIN fs : HasPrefix(p, SourcePath(i)) /\ BelowHiddenDir(fs, p)

\* The Dockerfile of the example: COPY app.py /app/ and COPY lib/ /app/lib/,
\* with a for app.py, l for lib and d for the destinations.
ExampleRecipe == Line(<<kwCopy, nA, nD>>) \o Line(<<kwCopy, <<"l", "/">>, nD>>)

\* The run of the example: the build context holds the Dockerfile, the file
\* a and the directory l with the one file b; mode sha1, no build arguments.
ExampleRun ==
    /\ cmd = BaseCmd
    /\ fs = FsWith(ExampleRecipe,
                   Merge(One(Ctx(<<nA>>), File(<<"y">>)),
                         Merge(One(InL(<<>>), Dir), One(InL(<<nB>>), File(<<"x">>)))))
    /\ fingerprint # ZeroFingerprint

\* The line of the hash for a name and the SHA1 of bytes.
ExampleLine(name, bytes) == name \o <<"@", "s", "h", "a", "1", ":", Sha1Hex(bytes), "\n">>

\* C17 as claimed: the hash of the example is fed the line of the Dockerfile,
\* the line of a and a line for the file l/b of the declared directory.
C17_OneLinePerFile ==
    ExampleRun =>
        h = ExampleLine(wDockerfile, ExampleRecipe)
                \o ExampleLine(<<"a">>, <<"y">>)
                \o ExampleLine(<<"l", "/", "b">>, <<"x">>)

\* C17: the hash of the example is fed three lines, in this order: the line
\* of the Dockerfile, the line of a, and one line for the declared directory,
\* named l, with the SHA1 of the bytes of the files below it; the image
\* fingerprint is the SHA1 of these lines.
C17_OneLinePerSource ==
    ExampleRun =>
        /\ h = ExampleLine(wDockerfile, ExampleRecipe)
                   \o ExampleLine(<<"a">>, <<"y">>)
                   \o ExampleLine(<<"l">>, <<"x">>)
        /\ fingerprint = [mode |-> modeSHA1, hash |-> Sha1Hex(h)]

C17_Witness == ExampleRun /\ pc = "done" /\ exit.code = 0

\* The file f of the repository lies in the subtree rooted at the path p.
InSubtree(f, p) == HasPrefix(SplitPath(f), p)

DirtyUnder(p) == \E f \in git.dirty : InSubtree(f, p)

\* The commits that touched a file of the subtree rooted at p, newest first.
HistoryOf(p) == SelectSeq(git.log, LAMBDA c : \E f \in c.files : InSubtree(f, p))

\* C18: under mode commit, a source that exists fails the run when there is
\* no repository, when a file of its subtree is modified and when no commit
\* touched its subtree; in a clean repository with a commit for the subtree
\* it does not fail, and its line holds a non-empty hash with the mode
\* commit.
C18_CommitModeFailures ==
    cmd.m = modeCommit =>
        /\ \A i \in 1..srcIdx :
               Stat(fs, SourcePath(i)) = "ok" =>
                   /\ git.repo
                   /\ ~DirtyUnder(SourcePath(i))
                   /\ HistoryOf(SourcePath(i)) # <<>>
        /\ (pc = "sources" /\ srcIdx >= 1 /\ Stat(fs, SourcePath(srcIdx)) = "ok") =>
               \E c \in {git.log[k] : k \in 1..Len(git.log)} :
                   /\ c.id # ""
                   /\ EndsWith(h, SourceName(srcIdx)
                                      \o <<"@", "c", "o", "m", "m", "i", "t", ":",
                                           c.id, "\n">>)
        /\ (pc = "done" /\ exit.err = "source"
                /\ Stat(fs, SourcePath(srcIdx + 1)) = "ok") =>
               \/ ~git.repo
               \/ git.dirty # {}
               \/ HistoryOf(SourcePath(srcIdx + 1)) = <<>>

\* C19: under mode commit, a source that exists fails the run only if a file
\* of its own subtree is modified or no commit touched its subtree, whatever
\* is modified elsewhere; the hash in its line is the newest commit that
\* touched a file of its subtree.
C19_PathScoped ==
    (cmd.m = modeCommit /\ git.repo) =>
        /\ (pc = "done" /\ exit.err = "source"
                /\ Stat(fs, SourcePath(srcIdx + 1)) = "ok") =>
               \/ DirtyUnder(SourcePath(srcIdx + 1))
               \/ HistoryOf(SourcePath(srcIdx + 1)) = <<>>
        /\ (pc = "sources" /\ srcIdx >= 1 /\ Stat(fs, SourcePath(srcIdx)) = "ok") =>
               /\ HistoryOf(SourcePath(srcIdx)) # <<>>
               /\ EndsWith(h, SourceName(srcIdx)
                                  \o <<"@", "c", "o", "m", "m", "i", "t", ":",
                                       HistoryOf(SourcePath(srcIdx))[1].id, "\n">>)

\* C20: under mode sha1, a source that exists fails the run only if a file
\* below it cannot be read, not because of a symbolic link to a directory;
\* when it does not fail its line holds a non-empty hash with the mode sha1.
C20_HashFilesSucceeds ==
    cmd.m = modeSHA1 =>
        /\ (pc = "done" /\ exit.err = "source"
                /\ Stat(fs, SourcePath(srcIdx + 1)) = "ok") =>
               \E q \in DOMAIN fs :
                   /\ HasPrefix(q, SourcePath(srcIdx + 1))
                   /\ fs[q].kind = "locked"
        /\ (pc = "sources" /\ srcIdx >= 1 /\ Stat(fs, SourcePath(srcIdx)) = "ok") =>
               \E n \in 1..Len(h) :
                   /\ h[n] # ""
                   /\ EndsWith(h, SourceName(srcIdx)
                                      \o <<"@", "s", "h", "a", "1", ":", h[n], "\n">>)

\* The places of the bytes s where the bytes p stand verbatim.
Occurrences(s, p) ==
    {i \in 1..Len(s) : i + Len(p) - 1 <= Len(s) /\ SubSeq(s, i, i + Len(p) - 1) = p}

TemplateErrors ==
    {"template_read", "template_noref", "template_inconsistent",
     "template_noplaceholder"}

\* C21: when a placeholder is given, a template file that can be read is
\* accepted if and only if its bytes hold the placeholder verbatim at least
\* once, whatever references to the image it holds; a file that is refused
\* ends the run with the error about the placeholder before anything is
\* hashed, before any docker command and before any template file is
\* written.
C21_ExplicitPlaceholder ==
    (cmd.p # <<>> /\ cmd.u # <<>>) =>
        /\ \A k \in 1..Len(templateFiles) :
               /\ Occurrences(templateFiles[k].contents, cmd.p) # {}
               /\ templateFiles[k].placeholder = cmd.p
        /\ (pc = "done" /\ exit.err \in TemplateErrors) =>
               LET file == tfiles0[cmd.u[Len(templateFiles) + 1]]
               IN  /\ exit.code = 1
                   /\ exit.err = (IF file.readable THEN "template_noplaceholder"
                                  ELSE "template_read")
                   /\ file.readable => Occurrences(file.data, cmd.p) = {}
                   /\ h = <<>>
                   /\ fingerprint = ZeroFingerprint
                   /\ docker = <<>>
                   /\ written = <<>>
                   /\ tfiles = tfiles0
        /\ (\E i \in 1..Len(cmd.u) :
               /\ tfiles0[cmd.u[i]].readable
               /\ Occurrences(tfiles0[cmd.u[i]].data, cmd.p) = {}) =>
               /\ pc \in {"start", "read", "done"}
               /\ pc = "done" => exit.code # 0
               /\ h = <<>>
               /\ docker = <<>>

C21_Witness ==
    /\ cmd.p # <<>>
    /\ pc = "done"
    /\ exit.err = "template_noplaceholder"
    /\ Len(templateFiles) = 1
    /\ Inconsistent(templateFiles[1].contents, cmd.imageName)

\* What the i-th declared source resolves to: itself when it exists, else
\* the matches of its pattern, each with its name in the hash and its path.
ResolvedAt(i) ==
    IF Stat(fs, SourcePath(i)) = "ok"
    THEN <<[name |-> SourceName(i), path |-> SourcePath(i)]>>
    ELSE [k \in 1..Len(Glob(fs, SourcePath(i))) |->
             [name |-> PathString(Rel(Clean(cmd.workingDir), Glob(fs, SourcePath(i))[k])),
              path |-> Glob(fs, SourcePath(i))[k]]]

\* The line of a resolved source: name, '@', strategy, ':', value, newline.
ResolvedLine(r) ==
    LET fp == computeFingerprint(cmd.m, fs, git, r.path).fp
    IN  r.name \o <<"@">> \o fp.mode \o <<":", fp.hash, "\n">>

\* The lines that the claim lists, one after the other.
ExpectedStream ==
    wDockerfile \o <<"@", "s", "h", "a", "1", ":", Sha1Hex(RecipeBytes(cmd, fs)), "\n">>
        \o Concat([i \in 1..Len(sources) |->
                      Concat([k \in 1..Len(ResolvedAt(i)) |->
                                 ResolvedLine(ResolvedAt(i)[k])])])
        \o Concat([i \in 1..Len(cmd.args) |->
                      (IF \E n \in 1..Len(cmd.args[i]) : cmd.args[i][n] = "="
                       THEN cmd.args[i]
                       ELSE cmd.args[i] \o <<"=">> \o env[cmd.args[i]].value)
                          \o <<"\n">>])

\* C22: the bytes that computeImageFingerprint digests are the line of the
\* Dockerfile, then one line per resolved source in the order of discovery
\* (the matches of a pattern in the order of the matches, where the pattern
\* was declared), then one line NAME=VALUE per build argument in the order
\* of the command line, and nothing else.
C22_DigestedStream ==
    fingerprint # ZeroFingerprint =>
        /\ h = ExpectedStream
        /\ fingerprint.hash = Sha1Hex(ExpectedStream)

C22_Witness ==
    /\ fingerprint # ZeroFingerprint
    /\ Len(cmd.args) = 2
    /\ \E i \in 1..Len(sources) : Len(ResolvedAt(i)) = 2

\* The declared path is a pattern: it holds a '*' or a '?'.
IsPattern(i) == \E n \in 1..Len(sources[i]) : sources[i][n] \in {"*", "?"}

\* The lines of the sources when the loop has handled the first n of them.
LinesUpTo(n) ==
    Concat([i \in 1..n |->
               Concat([k \in 1..Len(ResolvedAt(i)) |-> ResolvedLine(ResolvedAt(i)[k])])])

\* C23: a declared source that exists contributes one line under its own
\* name, its pattern characters not being expanded; one that does not exist
\* contributes one line per match of its pattern, under the path of the
\* match relative to the build context; with no match the run fails with
\* the not-found error of the stat, and a stat that fails otherwise fails
\* the run with its own error, whatever the pattern would match.
C23_LiteralFirstThenGlob ==
    /\ (pc = "sources" /\ srcIdx >= 1) =>
           /\ EndsWith(h, LinesUpTo(srcIdx))
           /\ Len(h) = Len(SourceLine(wDockerfile, fingerprintFromSHA1(<<>>)))
                           + Len(LinesUpTo(srcIdx))
           /\ Stat(fs, SourcePath(srcIdx)) = "ok" =>
                  /\ Len(ResolvedAt(srcIdx)) = 1
                  /\ ResolvedAt(srcIdx)[1].path = SourcePath(srcIdx)
           /\ Stat(fs, SourcePath(srcIdx)) # "ok" =>
                  /\ Stat(fs, SourcePath(srcIdx)) = "notexist"
                  /\ Len(ResolvedAt(srcIdx)) >= 1
                  /\ \A k \in 1..Len(ResolvedAt(srcIdx)) :
                         /\ ResolvedAt(srcIdx)[k].path \in DOMAIN fs
                         /\ Clean(cmd.workingDir) \o SplitPath(ResolvedAt(srcIdx)[k].name)
                                = ResolvedAt(srcIdx)[k].path
    /\ (pc = "done" /\ exit.err = "source") =>
           LET st == Stat(fs, SourcePath(srcIdx + 1))
           IN  /\ exit.about =
                      (IF st = "notdir" THEN "notdir"
                       ELSE IF st = "notexist" /\ Glob(fs, SourcePath(srcIdx + 1)) = <<>>
                       THEN "notexist"
                       ELSE "resolve")
               /\ exit.about = "resolve" =>
                      \E k \in 1..Len(ResolvedAt(srcIdx + 1)) :
                          ~computeFingerprint(cmd.m, fs, git,
                                              ResolvedAt(srcIdx + 1)[k].path).ok

C23_Witness ==
    /\ pc = "done"
    /\ exit.err = "source"
    /\ exit.about = "notdir"
    /\ IsPattern(srcIdx + 1)
    /\ srcIdx >= 1

\* The image reference that a docker command is about.
ReferenceOf(call) ==
    IF call.argv[1] = wManifest THEN call.argv[3]
    ELSE IF call.argv[1] = wPush THEN call.argv[2]
    ELSE call.argv[4]

\* The docker command did not do what it was run for; that the image is
\* not in the registry is an answer of the existence check, not a failure.
FailedCall(call) == call.outcome \in {"denied", "nostart"}

\* C24 as claimed: no docker command is run twice for the same image
\* reference, and the first docker command that fails is the last one of
\* the run, which ends with an error.
C24_FirstFailureAborts ==
    /\ \A i, j \in 1..Len(docker) :
           (i # j /\ docker[i].argv[1] = docker[j].argv[1]) =>
               ReferenceOf(docker[i]) # ReferenceOf(docker[j])
    /\ \A i \in 1..Len(docker) :
           FailedCall(docker[i]) =>
               /\ i = Len(docker)
               /\ pc = "done"
               /\ exit.code # 0

\* The docker commands of the run that start with the word w.
CallsOf(w) == {i \in 1..Len(docker) : docker[i].argv[1] = w}

\* C24: the existence check, the tag creation and the build are run at most
\* once, and a push at most once per entry of the list of the fingerprinted
\* image and the additional tags (twice for a tag given twice); a failure of
\* the tag creation, of the build or of a push, and a failure to start the
\* existence check, is the last command of the run, which ends with an
\* error; an existence check that exits with a non-zero code, whatever the
\* reason, is not an error and is followed by the build, once.
C24_NoRetry ==
    /\ Cardinality(CallsOf(wManifest)) <= 1
    /\ Cardinality(CallsOf(wBuildx)) <= 1
    /\ Cardinality(CallsOf(wBuild)) <= 1
    /\ Cardinality(CallsOf(wPush)) <= 1 + Len(cmd.t)
    /\ \A i \in 1..Len(docker) :
           ( /\ docker[i].outcome # "ok"
             /\ ~(i = 1 /\ docker[1].outcome \in {"notfound", "denied"}) ) =>
               /\ i = Len(docker)
               /\ pc = "done"
               /\ exit.code = 1
    /\ (docker # <<>> /\ docker[1].outcome \in {"notfound", "denied"}) =>
           /\ CallsOf(wBuild) \subseteq {2}
           /\ pc # "build" => CallsOf(wBuild) = {2}

C24_Witness ==
    /\ Len(docker) = 5
    /\ docker[1].outcome = "denied"
    /\ docker[5].argv[1] = wPush
    /\ docker[5].outcome = "denied"
    /\ docker[4].argv = docker[5].argv
    /\ pc = "done"

\* findOrBuildAndPushImage has returned the name of the image: the image
\* was found and, if tags are given, tagged; or it was built and the image
\* and every tag were pushed.
ReturnedImage ==
    /\ fingerprint # ZeroFingerprint
    /\ docker # <<>>
    /\ \A i \in 2..Len(docker) : docker[i].outcome = "ok"
    /\ \/ /\ docker[1].outcome = "ok"
          /\ Len(docker) = (IF cmd.t = <<>> THEN 1 ELSE 2)
       \/ /\ docker[1].outcome \in {"notfound", "denied"}
          /\ Len(docker) = 3 + Len(cmd.t)

C26_NoPartialAggregate ==
    /\ (pc = "done" /\ exit.err \in {"dockerfile", "source"}) =>
           /\ exit.code = 1
           /\ fingerprint = ZeroFingerprint
           /\ image = <<>>
           /\ docker = <<>>
           /\ written = <<>>
    /\ fingerprint # ZeroFingerprint =>
           /\ srcIdx = Len(sources)
           /\ fingerprint.hash = Sha1Hex(h)
           /\ EndsWith(h, LinesUpTo(Len(sources))
                              \o Concat([i \in 1..Len(buildArgs) |->
                                            buildArgs[i] \o <<"\n">>]))
    /\ pc \in {"fingerprint", "sources"} => fingerprint = ZeroFingerprint

C26_Witness ==
    /\ pc = "done"
    /\ exit.err = "source"
    /\ srcIdx >= 1
    /\ Len(h) > Len(SourceLine(wDockerfile, fingerprintFromSHA1(<<>>)))
    /\ fingerprint = ZeroFingerprint

\* C27: whatever the mode, the first line written to the hash is the name
\* Dockerfile, '@', the strategy sha1, ':' and the SHA1 of the bytes of the
\* Dockerfile that the run reads.
C27_RecipeAlwaysSHA1 ==
    h # <<>> =>
        /\ HasPrefix(h, <<"D", "o", "c", "k", "e", "r", "f", "i", "l", "e", "@",
                          "s", "h", "a", "1", ":">>)
        /\ h[17] = "<" \o Flat(fs[DockerfilePath(cmd.workingDir, cmd.f)].data) \o ">"
        /\ h[18] = "\n"
        /\ \A n \in 1..17 : h[n] # "\n"

C27_Witness ==
    /\ cmd.m = modeCommit
    /\ fingerprint # ZeroFingerprint
    /\ Len(sources) = 2
    /\ \E f \in git.log[Len(git.log)].files :
           SplitPath(f) = DockerfilePath(cmd.workingDir, cmd.f)

\* No instruction of the Dockerfile that was read takes sources from the
\* build context.
NoneQualifies ==
    /\ \/ pc \in {"sources", "inspect", "tag", "build", "push", "update"}
       \/ pc = "done" /\ exit.err \notin {"usage", "mode", "param"} \cup TemplateErrors
    /\ Children # <<>>
    /\ \A i \in 1..Len(Children) : ~Participates(Children[i])

\* C28 as claimed: for a Dockerfile none of whose instructions qualifies,
\* collectSourcesFromDockerfile returns no error and an empty list that is
\* not nil.
C28_EmptyNonNil ==
    NoneQualifies =>
        LET r == collectSourcesFromDockerfile(RecipeBytes(cmd, fs))
        IN  /\ r.ok
            /\ r.sources = <<>>
            /\ ~r.isNil

\* C28: for a Dockerfile none of whose instructions qualifies,
\* collectSourcesFromDockerfile returns no error and the empty list, which is
\* the nil slice; the run goes on with no source, and the hash is fed the
\* line of the Dockerfile and the lines of the build arguments.
C28_EmptyNoError ==
    NoneQualifies =>
        LET r == collectSourcesFromDockerfile(RecipeBytes(cmd, fs))
        IN  /\ r.ok
            /\ r.sources = <<>>
            /\ r.isNil
            /\ sources = <<>>
            /\ exit.err \notin {"dockerfile", "source"}
            /\ Len(h) = 18 + (IF fingerprint = ZeroFingerprint THEN 0
                              ELSE Len(Concat(buildArgs)) + Len(buildArgs))

C28_Witness ==
    /\ NoneQualifies
    /\ fingerprint # ZeroFingerprint
    /\ \E i \in 1..Len(Children) : Children[i].value = kwCopy

\* The list of the lines of the resolved sources of a run of the command
\* line c over the file tree fsys and the repository g.
SourceLineList(c, fsys, g) ==
    LET srcs == collectSourcesFromDockerfile(RecipeBytes(c, fsys)).sources
        wd == Clean(c.workingDir)
        LineOf(name, p) ==
            name \o <<"@">> \o computeFingerprint(c.m, fsys, g, p).fp.mode
                 \o <<":", computeFingerprint(c.m, fsys, g, p).fp.hash, "\n">>
        LinesOf(i) ==
            LET p == JoinPath(wd, srcs[i])
            IN  IF Stat(fsys, p) = "ok"
                THEN <<LineOf(PathString(Clean(srcs[i])), p)>>
                ELSE [k \in 1..Len(Glob(fsys, p)) |->
                         LineOf(PathString(Rel(wd, Glob(fsys, p)[k])), Glob(fsys, p)[k])]
    IN  Concat([i \in 1..Len(srcs) |-> LinesOf(i)])

\* C29: two runs that read the same bytes of the Dockerfile and differ in
\* the list of the lines of their resolved sources or in the list of their
\* build arguments feed different bytes to the hash, and so compute
\* different fingerprints.
C29_Injective ==
    ( /\ prev # <<>>
      /\ fingerprint # ZeroFingerprint
      /\ prev[1].fingerprint # ZeroFingerprint
      /\ RecipeBytes(cmd, fs) = RecipeBytes(prev[1].cmd, prev[1].fs)
      /\ \/ SourceLineList(cmd, fs, git)
                # SourceLineList(prev[1].cmd, prev[1].fs, prev[1].git)
         \/ ResolvedArgs(cmd, env) # ResolvedArgs(prev[1].cmd, prev[1].env) )
    => fingerprint # prev[1].fingerprint

\* The regular file p lies under the root, and no directory between the
\* root and the file is hidden.
UnderRoot(p, root) ==
    /\ HasPrefix(p, root)
    /\ \A n \in (Len(root) + 1)..(Len(p) - 1) : p[n][1] # "."

\* C30: under mode sha1, when the bytes of one regular file have changed
\* since the previous run and nothing else has, and the file lies under a
\* declared source with no hidden directory between the source and the file,
\* the run computes another fingerprint, also when the name of the source
\* itself begins with '.'.
C30_RootAlwaysWalked ==
    ( /\ prev # <<>>
      /\ fingerprint # ZeroFingerprint
      /\ prev[1].fingerprint # ZeroFingerprint
      /\ cmd.m = modeSHA1
      /\ cmd = prev[1].cmd /\ env = prev[1].env /\ git = prev[1].git
      /\ DOMAIN fs = DOMAIN prev[1].fs
      /\ \E p \in RegularFiles(fs) :
            /\ fs[p].data # prev[1].fs[p].data
            /\ \A q \in DOMAIN fs \ {p} : fs[q] = prev[1].fs[q]
            /\ \E i \in 1..Len(sources) :
                  /\ Stat(fs, SourcePath(i)) = "ok"
                  /\ UnderRoot(p, SourcePath(i)) )
    => fingerprint # prev[1].fingerprint

====
